---------------------------- MODULE Spec2Model ----------------------------
(***************************************************************************)
(* Launch Observer: the background script's payload reconciliation store,  *)
(* request record assembler and UAT evaluation, modelled as a state        *)
(* machine with one action per event handler.                              *)
(*                                                                         *)
(* Times are milliseconds, as in the source.  A request body is modelled   *)
(* by the facts the reconciliation code reads from it (see Body below).    *)
(***************************************************************************)
EXTENDS Integers, Sequences, FiniteSets, TLC

VARIABLES
    now,                  \* Date.now()
    settings,             \* settings (capturePaused, selectedSessionId, enableHooks, ...)
    sessions,             \* sessions, newest first
    currentSessionId,     \* currentSessionId
    uatConfigs,           \* uatConfigs, site -> config
    navState,             \* navState, tab -> nav record
    tabUrlCache,          \* tabUrlCache, tab -> url
    requests,             \* requests, oldest first
    requestIndex,         \* requestIndex, requestId -> position in requests
    payloadCache,         \* payloadCache, request id in URL -> entry
    payloadCacheByUrlTab, \* payloadCacheByUrlTab, tab -> list of entries
    hookQueueByTabUrl,    \* hookQueueByTabUrl, <<tab, url>> -> list of entries
    hookQueueByUrl,       \* hookQueueByUrl, url -> list of entries
    lastRequestAt,        \* lastRequestAt
    idlePrompted,         \* idlePrompted
    last,                 \* history: what the last handler did
    counters,             \* history: how many messages, requests, ticks so far
    rb                    \* the record body of the replacement-rule specification

vars == <<now, settings, sessions, currentSessionId, uatConfigs, navState,
          tabUrlCache, requests, requestIndex, payloadCache,
          payloadCacheByUrlTab, hookQueueByTabUrl, hookQueueByUrl,
          lastRequestAt, idlePrompted, last, counters, rb>>

progVars == <<now, settings, sessions, currentSessionId, uatConfigs, navState,
              tabUrlCache, requests, requestIndex, payloadCache,
              payloadCacheByUrlTab, hookQueueByTabUrl, hookQueueByUrl,
              lastRequestAt, idlePrompted, last, counters>>

-----------------------------------------------------------------------------
(* Request bodies.                                                         *)
(*   parsed : "none"   body.parsed is null/undefined or another falsy value *)
(*            "scalar" a truthy value that is not an object                *)
(*            "object" an object or an array                               *)
(*   evs    : the top-level events / xdm / _experience / data keys:        *)
(*            "absent" none is present, "falsy" one is present but none    *)
(*            has a truthy value, "truthy" one has a truthy value          *)
(*   params : parsed.params: "absent" (or not an array), "empty" array,    *)
(*            "nonempty" array                                             *)
(*   other  : parsed has a key besides those                               *)
(*   rawLen : body.raw.length, or -1 when body.raw is not a string         *)
(*   purl   : the page URL embedded in the payload ("" when none)          *)
(*   x      : the value at payload path x ("" when absent)                 *)
(*   mid    : history, the hook message the payload came with (0: network) *)
(*   hts    : history, the hook timestamp of that message                  *)

(*   ct     : body.contentType                                             *)

Null == [null |-> TRUE]

Body(parsed, evs, params, other, rawLen, purl, x, mid, hts) ==
    [parsed |-> parsed, evs |-> evs, params |-> params, other |-> other,
     rawLen |-> rawLen, purl |-> purl, x |-> x, ct |-> "", mid |-> mid,
     hts |-> hts]

RawLens == {-1, 0, 1, 2}

\* Every shape of body the rule can tell apart.
Bodies ==
    { Body("object", e, p, o, l, "", "", 0, 0) :
        e \in {"absent", "falsy", "truthy"}, p \in {"absent", "empty", "nonempty"},
        o \in BOOLEAN, l \in RawLens }
    \cup { Body(k, "absent", "absent", FALSE, l, "", "", 0, 0) :
             k \in {"none", "scalar"}, l \in RawLens }

BodiesOrNull == Bodies \cup {Null}

\* Object.keys(body.parsed).length === 0
NoKeys(body) == body.evs = "absent" /\ body.params = "absent" /\ ~body.other

isBodyEmptyNoRaw(body) ==
    IF body = Null THEN TRUE
    ELSE IF body.parsed # "none"
         THEN IF body.params # "absent" THEN body.params = "empty"
              ELSE IF body.parsed = "object" THEN NoKeys(body)
              ELSE FALSE
         ELSE TRUE

isBodyEmpty(body) ==
    IF body = Null THEN TRUE
    ELSE IF body.parsed # "none"
         THEN IF body.params # "absent" THEN body.params = "empty"
              ELSE IF body.parsed = "object" THEN NoKeys(body)
              ELSE FALSE
         ELSE IF body.rawLen >= 0 THEN body.rawLen = 0
              ELSE FALSE

\* !!(parsed.events || parsed.xdm || parsed._experience || parsed.data)
HasEvents(body) == body # Null /\ body.parsed = "object" /\ body.evs = "truthy"

\* typeof body.raw === 'string' ? body.raw.length : 0
RawLength(body) == IF body # Null /\ body.rawLen >= 0 THEN body.rawLen ELSE 0

shouldReplaceBody(existing, incoming) ==
    IF incoming = Null THEN FALSE
    ELSE IF isBodyEmpty(existing) THEN TRUE
    ELSE IF incoming.parsed # "object" THEN FALSE
    ELSE IF ~HasEvents(incoming) THEN FALSE
    ELSE IF ~HasEvents(existing) THEN TRUE
    ELSE RawLength(incoming) > RawLength(existing)

\* A record body after one candidate was offered to it.
Offer(existing, incoming) ==
    IF shouldReplaceBody(existing, incoming) THEN incoming ELSE existing

-----------------------------------------------------------------------------
(* Bounds of the model.                                                    *)

MaxRequests == 2   \* network requests observed
MaxMessages == 2   \* hook messages delivered
MaxTicks == 1      \* clock advances
MaxSessions == 1   \* sessions started
MaxInputs == 3     \* network requests and hook messages together
MaxEvents == 2     \* later events (headers, completion, error) of recorded requests
MaxNavs == 3       \* navigation events
MaxRecords == 3    \* records of the UAT evaluation specification
MaxOpened == 2     \* sessions started in the session specification
MaxOps == 3        \* session messages, alarms and waits

(* Program constants.                                                      *)

PAYLOAD_TTL_MS == 2 * 60 * 1000
MAX_BODY_CHARS == 200000
DEFAULT_MAX_ENTRIES == 2000
BY_URL_WINDOW_MS == 15000
HOOK_WINDOW_MS == 20000
IDLE_TIMEOUT_MS == 5 * 60 * 1000

-----------------------------------------------------------------------------
(* Tabs, URLs and the values the environment supplies.  "" stands for a    *)
(* missing, null or empty string.                                          *)

Tabs == {"t1", "t2"}
NoTab == "undefined"          \* sender.tab.id is undefined
NullId == 0                   \* a null session id; session ids are 1, 2, ...

U_sdk == "https://edge.adobedc.net/ee/v1/interact?configId=c1&requestId=r1"
U_col == "https://edge.adobedc.net/ee/v1/collect"
U_out == "https://example.com/track"
Urls == {U_sdk, U_col}
UrlRequestIds == {"r1"}
PageA == "https://site.example/a"
PageB == "https://site.example/b"
Pages == {PageA, PageB}
Origin == "https://site.example"
SiteA == "site.example"

Or(a, b) == IF a # "" THEN a ELSE b
\* Map.get (0 when absent) and Map.set
MapGet(m, k) == IF k \in DOMAIN m THEN m[k] ELSE 0
MapSet(m, k, v) == [x \in DOMAIN m \cup {k} |-> IF x = k THEN v ELSE m[x]]
Abs(n) == IF n < 0 THEN -n ELSE n
Last(seq) == seq[Len(seq)]
RemoveAt(seq, i) == SubSeq(seq, 1, i - 1) \o SubSeq(seq, i + 1, Len(seq))
\* Array.prototype.findIndex, 0 for -1
FindIndex(seq, Test(_)) ==
    LET hits == {i \in 1..Len(seq) : Test(seq[i])}
    IN  IF hits = {} THEN 0 ELSE CHOOSE i \in hits : \A j \in hits : i <= j

getDomainFromUrl(url) == IF url = U_out THEN "example.com" ELSE "edge.adobedc.net"

\* new URL(url).searchParams.get('requestId')
getRequestIdFromUrl(url) == IF url = U_sdk THEN "r1" ELSE ""

parseQueryString(url) ==
    IF url = U_sdk
    THEN <<[key |-> "configId", value |-> "c1"], [key |-> "requestId", value |-> "r1"]>>
    ELSE <<>>

\* none of the modelled URLs carries dl, documentLocation, ..., url
extractPageUrlFromRequest(url) == ""

\* domain.endsWith("." + entry)
IsSubdomainOf(domain, entry) ==
    <<domain, entry>> \in {<<"edge.adobedc.net", "adobedc.net">>}

isAllowed(s, url) ==
    \E entry \in s.settings.allowlist :
        entry # "" /\ (getDomainFromUrl(url) = entry
                       \/ IsSubdomainOf(getDomainFromUrl(url), entry))

resolveServiceIdForDomain(domain, mappings) ==
    IF domain = "edge.adobedc.net" THEN "adobe-edge" ELSE ""

extractPageUrlFromPayload(body) ==
    IF body # Null /\ body.parsed = "object" THEN body.purl ELSE ""

-----------------------------------------------------------------------------
(* The program state as one record, so that a handler is a function from   *)
(* states to states.                                                       *)

State ==
    [now |-> now, settings |-> settings, sessions |-> sessions,
     currentSessionId |-> currentSessionId, uatConfigs |-> uatConfigs,
     navState |-> navState, tabUrlCache |-> tabUrlCache, requests |-> requests,
     requestIndex |-> requestIndex, payloadCache |-> payloadCache,
     payloadCacheByUrlTab |-> payloadCacheByUrlTab,
     hookQueueByTabUrl |-> hookQueueByTabUrl, hookQueueByUrl |-> hookQueueByUrl,
     lastRequestAt |-> lastRequestAt, idlePrompted |-> idlePrompted,
     sessionSeq |-> counters.sessions,
     last |-> last]

Becomes(s) ==
    /\ now' = s.now
    /\ settings' = s.settings
    /\ sessions' = s.sessions
    /\ currentSessionId' = s.currentSessionId
    /\ uatConfigs' = s.uatConfigs
    /\ navState' = s.navState
    /\ tabUrlCache' = s.tabUrlCache
    /\ requests' = s.requests
    /\ requestIndex' = s.requestIndex
    /\ payloadCache' = s.payloadCache
    /\ payloadCacheByUrlTab' = s.payloadCacheByUrlTab
    /\ hookQueueByTabUrl' = s.hookQueueByTabUrl
    /\ hookQueueByUrl' = s.hookQueueByUrl
    /\ lastRequestAt' = s.lastRequestAt
    /\ idlePrompted' = s.idlePrompted
    /\ last' = s.last

\* history: what the handler that starts now has done so far
Fresh == [pulled |-> {}, expiredMiss |-> {}, pruned |-> {}]
Begin(s) == [s EXCEPT !.last = Fresh]
NotePull(s, cache, entry) ==
    [s EXCEPT !.last.pulled = @ \cup {[cache |-> cache, age |-> s.now - entry.at]}]
NotePrune(s, cache) == [s EXCEPT !.last.pruned = @ \cup {cache}]
\* history: a lookup that found no entry although list holds one with the
\* looked-up key that was inserted more than the TTL ago
NoteMiss(s, cache, list, Key(_)) ==
    IF \E i \in 1..Len(list) : Key(list[i]) /\ s.now - list[i].at > PAYLOAD_TTL_MS
    THEN [s EXCEPT !.last.expiredMiss = @ \cup {cache}]
    ELSE s

SessionById(s, id) ==
    LET i == FindIndex(s.sessions, LAMBDA x : x.id = id)
    IN  IF i = 0 THEN Null ELSE s.sessions[i]

ActiveSessionId(s) ==
    IF s.settings.selectedSessionId # NullId THEN s.settings.selectedSessionId
    ELSE s.currentSessionId

-----------------------------------------------------------------------------
(* The reconciliation caches.  An entry's "at" is history: Date.now() when  *)
(* it was inserted.                                                        *)

Expired(s, entry) == s.now - entry.ts > PAYLOAD_TTL_MS

prunePayloadCache(s) ==
    NotePrune([s EXCEPT !.payloadCache =
                 [k \in UrlRequestIds |->
                    IF s.payloadCache[k] # Null /\ Expired(s, s.payloadCache[k])
                    THEN Null ELSE s.payloadCache[k]]],
              "payloadCache")

cachePayload(s, requestId, payload, pageUrl) ==
    LET existing == s.payloadCache[requestId]
        entry == [payload |-> payload,
                  pageUrl |-> Or(pageUrl, IF existing # Null THEN existing.pageUrl ELSE ""),
                  ts |-> s.now, at |-> s.now]
    IN  prunePayloadCache([s EXCEPT !.payloadCache[requestId] = entry])

cachePageContext(s, requestId, pageUrl) ==
    IF requestId = "" \/ pageUrl = "" THEN s
    ELSE IF s.payloadCache[requestId] # Null /\ s.payloadCache[requestId].payload # Null
         THEN s
         ELSE prunePayloadCache(
                [s EXCEPT !.payloadCache[requestId] =
                    [payload |-> Null, pageUrl |-> pageUrl, ts |-> s.now, at |-> s.now]])

pullCachedPayloadNoTtl(s, requestId) ==
    LET entry == s.payloadCache[requestId]
    IN  IF entry = Null THEN [res |-> Null, st |-> s]
        ELSE [res |-> entry,
              st |-> NotePull([s EXCEPT !.payloadCache[requestId] = Null],
                              "payloadCache", entry)]

pullCachedPayload(s, requestId) ==
    LET entry == s.payloadCache[requestId]
    IN  IF entry = Null THEN [res |-> Null, st |-> s]
        ELSE IF Expired(s, entry)
             THEN [res |-> Null,
                   st |-> [s EXCEPT !.payloadCache[requestId] = Null,
                                    !.last.expiredMiss = @ \cup {"payloadCache"}]]
             ELSE [res |-> entry,
                   st |-> NotePull([s EXCEPT !.payloadCache[requestId] = Null],
                                   "payloadCache", entry)]

Unexpired(s, list) == SelectSeq(list, LAMBDA entry : ~Expired(s, entry))

prunePayloadCacheByUrl(s, tabId) ==
    NotePrune([s EXCEPT !.payloadCacheByUrlTab[tabId] = Unexpired(s, @)],
              "payloadCacheByUrlTab")

cachePayloadByUrl(s, tabId, url, payload, pageUrl) ==
    IF tabId = NoTab \/ url = "" THEN s
    ELSE prunePayloadCacheByUrl(
            [s EXCEPT !.payloadCacheByUrlTab[tabId] =
                Append(@, [url |-> url, payload |-> payload, pageUrl |-> pageUrl,
                           ts |-> s.now, at |-> s.now])],
            tabId)

cachePageContextByUrl(s, tabId, url, pageUrl) ==
    IF tabId = NoTab \/ url = "" \/ pageUrl = "" THEN s
    ELSE IF \E i \in 1..Len(s.payloadCacheByUrlTab[tabId]) :
               /\ s.payloadCacheByUrlTab[tabId][i].url = url
               /\ s.payloadCacheByUrlTab[tabId][i].payload # Null
         THEN s
         ELSE prunePayloadCacheByUrl(
                [s EXCEPT !.payloadCacheByUrlTab[tabId] =
                    Append(@, [url |-> url, payload |-> Null, pageUrl |-> pageUrl,
                               ts |-> s.now, at |-> s.now])],
                tabId)

\* (timeStamp || now)
TimeOr(s, timeStamp) == IF timeStamp # 0 THEN timeStamp ELSE s.now

pullCachedPayloadByUrl(s, tabId, url, timeStamp) ==
    IF tabId = NoTab \/ url = "" THEN [res |-> Null, st |-> s]
    ELSE LET list == s.payloadCacheByUrlTab[tabId]
             i == FindIndex(list, LAMBDA entry :
                     /\ entry.url = url
                     /\ Abs(TimeOr(s, timeStamp) - entry.ts) < BY_URL_WINDOW_MS)
         IN  IF i = 0
             THEN [res |-> Null,
                   st |-> NoteMiss(s, "payloadCacheByUrlTab", list,
                                   LAMBDA entry : entry.url = url)]
             ELSE [res |-> list[i],
                   st |-> NotePull([s EXCEPT !.payloadCacheByUrlTab[tabId] =
                                        RemoveAt(list, i)],
                                   "payloadCacheByUrlTab", list[i])]

pruneHookQueue(s, key) ==
    NotePrune([s EXCEPT !.hookQueueByTabUrl[key] = Unexpired(s, @)],
              "hookQueueByTabUrl")

pruneHookQueueByUrl(s, url) ==
    NotePrune([s EXCEPT !.hookQueueByUrl[url] = Unexpired(s, @)], "hookQueueByUrl")

cacheHookPayload(s, tabId, url, payload, pageUrl, hookTs) ==
    IF tabId = NoTab \/ url = "" THEN s
    ELSE LET entry == [payload |-> payload, pageUrl |-> pageUrl,
                       ts |-> TimeOr(s, hookTs), at |-> s.now]
             s1 == pruneHookQueue(
                     [s EXCEPT !.hookQueueByTabUrl[<<tabId, url>>] = Append(@, entry)],
                     <<tabId, url>>)
         IN  pruneHookQueueByUrl(
                [s1 EXCEPT !.hookQueueByUrl[url] = Append(@, entry)], url)

pullHookPayload(s, tabId, url, timeStamp) ==
    IF tabId = NoTab \/ url = "" THEN [res |-> Null, st |-> s]
    ELSE LET list == s.hookQueueByTabUrl[<<tabId, url>>]
             i == FindIndex(list, LAMBDA entry :
                     Abs(TimeOr(s, timeStamp) - entry.ts) < HOOK_WINDOW_MS)
         IN  IF i = 0
             THEN [res |-> Null,
                   st |-> NoteMiss(s, "hookQueueByTabUrl", list, LAMBDA entry : TRUE)]
             ELSE [res |-> list[i],
                   st |-> NotePull([s EXCEPT !.hookQueueByTabUrl[<<tabId, url>>] =
                                        RemoveAt(list, i)],
                                   "hookQueueByTabUrl", list[i])]

pullHookPayloadByUrl(s, url, timeStamp) ==
    IF url = "" THEN [res |-> Null, st |-> s]
    ELSE LET list == s.hookQueueByUrl[url]
             i == FindIndex(list, LAMBDA entry :
                     Abs(TimeOr(s, timeStamp) - entry.ts) < HOOK_WINDOW_MS)
         IN  IF i = 0
             THEN [res |-> Null,
                   st |-> NoteMiss(s, "hookQueueByUrl", list, LAMBDA entry : TRUE)]
             ELSE [res |-> list[i],
                   st |-> NotePull([s EXCEPT !.hookQueueByUrl[url] = RemoveAt(list, i)],
                                   "hookQueueByUrl", list[i])]

-----------------------------------------------------------------------------
(* The UAT rule engine.  Resolved values are strings; the modelled strings *)
(* are "", "1", "2", "c1", "r1", "application/json" and "~", which stands  *)
(* for a serialised object or a raw text none of the others occurs in.     *)

NaN == [nan |-> TRUE]
\* Number(v)
ToNumber(v) ==
    CASE v = "" -> [nan |-> FALSE, n |-> 0]
      [] v = "1" -> [nan |-> FALSE, n |-> 1]
      [] v = "2" -> [nan |-> FALSE, n |-> 2]
      [] OTHER -> NaN

\* String(expected): expected is [t |-> "str", v |-> s], [t |-> "list", v |-> seq]
\* or [t |-> "undefined"]
ToText(expected) ==
    CASE expected.t = "str" -> expected.v
      [] expected.t = "list" ->
            IF Len(expected.v) = 0 THEN ""
            ELSE IF Len(expected.v) = 1 THEN expected.v[1] ELSE "~"
      [] OTHER -> "undefined"

\* v.includes(e), v.startsWith(e), v.endsWith(e) on the modelled strings,
\* none of which is a proper part of another
Includes(v, e) == e = "" \/ v = e

\* new RegExp(e).test(v): "(" is a malformed pattern, the other modelled
\* patterns are literals
RegexTest(e, v) == IF e = "(" THEN FALSE ELSE Includes(v, e)

ExpectedList(expected) ==
    IF expected.t = "list" THEN {expected.v[i] : i \in 1..Len(expected.v)}
    ELSE {ToText(expected)}

NumCompare(op, v, e) ==
    LET Compare(a, b) ==
            IF a.nan \/ b.nan THEN FALSE
            ELSE CASE op = "gt" -> a.n > b.n
                   [] op = "gte" -> a.n >= b.n
                   [] op = "lt" -> a.n < b.n
                   [] op = "lte" -> a.n <= b.n
    IN  Compare(ToNumber(v), ToNumber(e))

\* the operator in passing only if every value of the list is in the expected
\* set, the other operators passing never
evaluateConditionInEvery(condition, values) ==
    LET operator == IF condition.operator = "" THEN "exists" ELSE condition.operator
        list == {values[i] : i \in 1..Len(values)}
    IN  IF operator = "in"
        THEN \A v \in list : v \in ExpectedList(condition.expected)
        ELSE \E v \in list : FALSE

evaluateCondition(condition, values) ==
    LET operator == IF condition.operator = "" THEN "exists" ELSE condition.operator
        expected == condition.expected
        list == {values[i] : i \in 1..Len(values)}
        hasValue == \E v \in list : v # ""
    IN  CASE operator = "exists" -> hasValue
          [] operator = "not_exists" -> ~hasValue
          [] operator = "equals" -> \E v \in list : v = ToText(expected)
          [] operator \in {"contains", "starts_with", "ends_with"} ->
                \E v \in list : Includes(v, ToText(expected))
          [] operator = "regex" -> \E v \in list : RegexTest(ToText(expected), v)
          [] operator = "in" -> \E v \in list : v \in ExpectedList(expected)
          [] operator = "not_in" -> \A v \in list : v \notin ExpectedList(expected)
          [] operator \in {"gt", "gte", "lt", "lte"} ->
                \E v \in list : NumCompare(operator, v, ToText(expected))
          [] operator = "range" ->
                /\ expected.t = "list"
                /\ Len(expected.v) >= 2
                /\ \E v \in list : /\ NumCompare("gte", v, expected.v[1])
                                   /\ NumCompare("lte", v, expected.v[2])
          [] OTHER -> FALSE

\* The object the payload paths are resolved against: Null, or the value at
\* path x in it.
getPayloadObject(request) ==
    IF request.body = Null THEN Null
    ELSE IF request.body.parsed = "object" THEN [x |-> request.body.x]
    ELSE IF request.body.rawLen >= 0
         THEN IF request.body.parsed = "scalar" THEN [x |-> ""]
              ELSE IF request.body.rawLen > 0 THEN [x |-> request.body.x]
              ELSE Null
    ELSE Null

Lower(name) == IF name = "Content-Type" THEN "content-type" ELSE name

Matching(seq, Test(_), Value(_)) ==
    LET hits == SelectSeq(seq, Test)
    IN  [i \in 1..Len(hits) |-> Value(hits[i])]

resolveConditionValue(condition, request) ==
    LET source == IF condition.source = "" THEN "payload" ELSE condition.source
        path == condition.path
    IN  CASE source = "payload" ->
               LET payload == getPayloadObject(request)
               IN  IF payload = Null THEN [used |-> FALSE, values |-> <<>>]
                   ELSE IF path = "" THEN [used |-> TRUE, values |-> <<"~">>]
                   ELSE IF path = "x" /\ payload.x # ""
                        THEN [used |-> TRUE, values |-> <<payload.x>>]
                        ELSE [used |-> FALSE, values |-> <<>>]
          [] source = "query" ->
               LET m == Matching(request.query, LAMBDA p : p.key = path,
                                 LAMBDA p : p.value)
               IN  [used |-> Len(m) > 0, values |-> m]
          [] source = "headers" ->
               LET m == Matching(request.requestHeaders,
                                 LAMBDA h : Lower(h.name) = Lower(path),
                                 LAMBDA h : h.value)
               IN  [used |-> Len(m) > 0, values |-> m]
          [] source = "raw" ->
               LET raw == IF request.body # Null /\ request.body.rawLen > 0
                          THEN "~" ELSE ""
               IN  [used |-> raw # "", values |-> <<raw>>]
          [] OTHER -> [used |-> FALSE, values |-> <<>>]

Passes(condition, request) ==
    evaluateCondition(condition, resolveConditionValue(condition, request).values)

\* as resolveConditionResults, with all in the place of any
resolveConditionResultsAll(conditions, logic, request, forceApplicable) ==
    LET Result(condition, resolved) ==
            [passed |-> evaluateCondition(condition, resolved.values),
             actual |-> resolved.values, used |-> resolved.used]
        Summary(conditionResults) ==
            [conditionResults |-> conditionResults,
             applicable |->
                 IF Len(conditions) = 0 THEN TRUE
                 ELSE IF forceApplicable THEN TRUE
                 ELSE \A i \in 1..Len(conditionResults) : conditionResults[i].passed]
    IN  Summary([i \in 1..Len(conditions) |->
                   Result(conditions[i],
                          resolveConditionValue(conditions[i], request))])

resolveConditionResults(conditions, logic, request, forceApplicable) ==
    LET Result(condition, resolved) ==
            [passed |-> evaluateCondition(condition, resolved.values),
             actual |-> resolved.values,
             used |-> resolved.used]
        Summary(conditionResults) ==
            [conditionResults |-> conditionResults,
             applicable |->
                IF Len(conditions) = 0 THEN TRUE
                ELSE IF forceApplicable THEN TRUE
                ELSE IF logic = "any"
                     THEN \E i \in 1..Len(conditions) : conditionResults[i].passed
                     ELSE \A i \in 1..Len(conditions) : conditionResults[i].passed]
    IN  Summary([i \in 1..Len(conditions) |->
                    Result(conditions[i],
                           resolveConditionValue(conditions[i], request))])

\* as evaluateGlobalGate, without the exclude conditions
evaluateGlobalGateNoExclude(request, globalConfig, serviceId) ==
    IF globalConfig = Null THEN TRUE
    ELSE LET inc == globalConfig.includeServices
             exc == globalConfig.excludeServices
             incC == globalConfig.includeConditions
         IN  IF inc # {} /\ (serviceId = "" \/ serviceId \notin inc) THEN FALSE
             ELSE IF exc # {} /\ serviceId # "" /\ serviceId \in exc THEN FALSE
             ELSE IF ~(\A i \in 1..Len(incC) : Passes(incC[i], request)) THEN FALSE
             ELSE TRUE

evaluateGlobalGate(request, globalConfig, serviceId) ==
    IF globalConfig = Null THEN TRUE
    ELSE LET inc == globalConfig.includeServices
             exc == globalConfig.excludeServices
             excC == globalConfig.excludeConditions
             incC == globalConfig.includeConditions
         IN  IF inc # {} /\ (serviceId = "" \/ serviceId \notin inc) THEN FALSE
             ELSE IF exc # {} /\ serviceId # "" /\ serviceId \in exc THEN FALSE
             ELSE IF \E i \in 1..Len(excC) : Passes(excC[i], request) THEN FALSE
             ELSE IF ~(\A i \in 1..Len(incC) : Passes(incC[i], request)) THEN FALSE
             ELSE TRUE

\* the page key of a record: `${pageUrl || url}::${navId}`, or pageUrl || url
PageKey(request) ==
    IF request.navId # 0 THEN <<Or(request.pageUrl, request.url), request.navId>>
    ELSE <<Or(request.pageUrl, request.url)>>

countAssertionMatches(assertion, allRequests, request) ==
    Cardinality(
      {k \in 1..Len(allRequests) :
         LET item == allRequests[k]
             conditionsPass ==
                 IF assertion.conditionsLogic = "any"
                 THEN \E i \in 1..Len(assertion.conditions) :
                         Passes(assertion.conditions[i], item)
                 ELSE \A i \in 1..Len(assertion.conditions) :
                         Passes(assertion.conditions[i], item)
         IN  /\ PageKey(item) = PageKey(request)
             /\ (Len(assertion.conditions) > 0 => conditionsPass)
             /\ \A i \in 1..Len(assertion.validations) :
                   Passes(assertion.validations[i], item)})

\* as evaluateCount, with at_least as "more than"
evaluateCountStrict(mode, actual, expected) ==
    LET Compare(n) ==
            IF mode = "at_least" THEN actual > n
            ELSE IF mode = "at_most" THEN actual <= n
            ELSE actual = n
    IN  IF expected.t = "num" THEN Compare(expected.n)
        ELSE IF expected.t = "null" THEN Compare(0)
        ELSE FALSE

\* expected is [t |-> "num", n |-> k], [t |-> "null"] (Number(null) is 0), or
\* another t when Number(expected) is not finite
evaluateCount(mode, actual, expected) ==
    LET Compare(n) ==
            IF mode = "at_least" THEN actual >= n
            ELSE IF mode = "at_most" THEN actual <= n
            ELSE actual = n
    IN  IF expected.t = "num" THEN Compare(expected.n)
        ELSE IF expected.t = "null" THEN Compare(0)
        ELSE FALSE

\* as AssertionResult, with the validations combined under the assertion's
\* logic
AssertionResultByLogic(assertion, request, allRequests) ==
    LET counted == assertion.scope = "page" /\ assertion.count # ""
                   /\ assertion.value.t # "undefined"
        Outcome(cond, val, count) ==
            LET passed ==
                    IF counted
                    THEN evaluateCount(assertion.count, count, assertion.value)
                    ELSE IF assertion.conditionsLogic = "any"
                    THEN \E i \in 1..Len(val.conditionResults) :
                            val.conditionResults[i].passed
                    ELSE \A i \in 1..Len(val.conditionResults) :
                            val.conditionResults[i].passed
            IN  IF ~cond.applicable
                THEN [id |-> assertion.id, status |-> "skipped", applicable |-> FALSE,
                      conditionsLogic |-> assertion.conditionsLogic,
                      scope |-> assertion.scope,
                      conditions |-> cond.conditionResults, validations |-> <<>>,
                      count |-> Null]
                ELSE [id |-> assertion.id,
                      status |-> IF passed THEN "passed" ELSE "failed",
                      applicable |-> TRUE,
                      conditionsLogic |-> assertion.conditionsLogic,
                      scope |-> assertion.scope,
                      conditions |-> cond.conditionResults,
                      validations |-> val.conditionResults,
                      count |-> IF counted
                                THEN [count |-> assertion.count,
                                      expected |-> assertion.value,
                                      actual |-> count]
                                ELSE Null]
    IN  Outcome(resolveConditionResults(assertion.conditions,
                    Or(assertion.conditionsLogic, "all"), request, FALSE),
                resolveConditionResults(assertion.validations, "all", request, TRUE),
                countAssertionMatches(assertion, allRequests, request))

AssertionResult(assertion, request, allRequests) ==
    LET counted == assertion.scope = "page" /\ assertion.count # ""
                   /\ assertion.value.t # "undefined"
        Outcome(cond, val, count) ==
            LET passed ==
                    IF counted
                    THEN evaluateCount(assertion.count, count, assertion.value)
                    ELSE \A i \in 1..Len(val.conditionResults) :
                            val.conditionResults[i].passed
            IN  IF ~cond.applicable
                THEN [id |-> assertion.id, status |-> "skipped", applicable |-> FALSE,
                      conditionsLogic |-> assertion.conditionsLogic,
                      scope |-> assertion.scope,
                      conditions |-> cond.conditionResults, validations |-> <<>>,
                      count |-> Null]
                ELSE [id |-> assertion.id,
                      status |-> IF passed THEN "passed" ELSE "failed",
                      applicable |-> TRUE,
                      conditionsLogic |-> assertion.conditionsLogic,
                      scope |-> assertion.scope,
                      conditions |-> cond.conditionResults,
                      validations |-> val.conditionResults,
                      count |-> IF counted
                                THEN [count |-> assertion.count,
                                      expected |-> assertion.value,
                                      actual |-> count]
                                ELSE Null]
    IN  Outcome(resolveConditionResults(assertion.conditions,
                    Or(assertion.conditionsLogic, "all"), request, FALSE),
                resolveConditionResults(assertion.validations, "all", request, TRUE),
                countAssertionMatches(assertion, allRequests, request))

evaluateAssertionsForRequest(request, assertions, allRequests, options) ==
    IF ~evaluateGlobalGate(request, options.global, options.serviceId) THEN <<>>
    ELSE [i \in 1..Len(assertions) |->
            AssertionResult(assertions[i], request, allRequests)]

\* as UatFor, done whatever the number of results
UatForAlwaysDone(s, entry) ==
    LET session == SessionById(s, entry.sessionId)
        config == IF session # Null /\ session.site # ""
                  THEN s.uatConfigs[session.site] ELSE Null
    IN  IF session = Null \/ ~session.uatEnabled THEN Null
        ELSE IF config = Null
             THEN [status |-> "not-applicable", results |-> <<>>]
             ELSE LET sessionRequests ==
                          SelectSeq(s.requests, LAMBDA r : r.sessionId = entry.sessionId)
                      Verdict(results) == [status |-> "done", results |-> results]
                  IN  Verdict(evaluateAssertionsForRequest(entry, config.assertions,
                                  sessionRequests,
                                  [global |-> config.global,
                                   serviceId |-> entry.serviceId]))

\* as UatFor, with the new results added to the stored ones
UatForAppending(s, entry) ==
    LET session == SessionById(s, entry.sessionId)
        config == IF session # Null /\ session.site # ""
                  THEN s.uatConfigs[session.site] ELSE Null
        stored == IF entry.uat = Null THEN <<>> ELSE entry.uat.results
    IN  IF session = Null \/ ~session.uatEnabled THEN Null
        ELSE IF config = Null
             THEN [status |-> "not-applicable", results |-> <<>>]
             ELSE LET sessionRequests ==
                          SelectSeq(s.requests, LAMBDA r : r.sessionId = entry.sessionId)
                      Verdict(results) ==
                          IF Len(results) = 0
                          THEN [status |-> "not-applicable", results |-> <<>>]
                          ELSE [status |-> "done", results |-> stored \o results]
                  IN  Verdict(evaluateAssertionsForRequest(entry, config.assertions,
                                  sessionRequests,
                                  [global |-> config.global,
                                   serviceId |-> entry.serviceId]))

\* The uat value evaluateUatForRequest stores for a record.
UatFor(s, entry) ==
    LET session == SessionById(s, entry.sessionId)
        config == IF session # Null /\ session.site # ""
                  THEN s.uatConfigs[session.site] ELSE Null
    IN  IF session = Null \/ ~session.uatEnabled THEN Null
        ELSE IF config = Null
             THEN [status |-> "not-applicable", results |-> <<>>]
             ELSE LET sessionRequests ==
                          SelectSeq(s.requests, LAMBDA r : r.sessionId = entry.sessionId)
                      Verdict(results) ==
                          IF Len(results) = 0
                          THEN [status |-> "not-applicable", results |-> <<>>]
                          ELSE [status |-> "done", results |-> results]
                  IN  Verdict(evaluateAssertionsForRequest(entry, config.assertions,
                                  sessionRequests,
                                  [global |-> config.global,
                                   serviceId |-> entry.serviceId]))

evaluateUatForRequest(s, i) ==
    [s EXCEPT !.requests[i].uat = UatFor(s, s.requests[i])]

-----------------------------------------------------------------------------
(* The body decoder.  A webRequest requestBody is described by             *)
(*   formData : "absent", "nofields" or "fields"                           *)
(*   len      : length of the decoded raw text (0: no raw bytes)           *)
(*   json     : what JSON.parse makes of the text: "invalid", "falsy",     *)
(*              "scalar" or "object", with evs, params, other, purl, x     *)
(*              describing the object                                      *)
(*   formLike : isLikelyFormEncoded(text)                                  *)

TypeIncludes(contentType, what) == contentType = what

JsonBody(requestBody, contentType) ==
    IF requestBody.json \in {"invalid", "falsy"}
    THEN [Body("none", "absent", "absent", FALSE, requestBody.len, "", "", 0, 0)
            EXCEPT !.ct = contentType]
    ELSE IF requestBody.json = "scalar"
    THEN [Body("scalar", "absent", "absent", FALSE, requestBody.len, "", "", 0, 0)
            EXCEPT !.ct = contentType]
    ELSE [Body("object", requestBody.evs, requestBody.params, requestBody.other, requestBody.len, requestBody.purl, requestBody.x, 0, 0)
            EXCEPT !.ct = contentType]

\* parsed is { raw, params }
FormBody(requestBody, contentType) ==
    [Body("object", "absent", "nonempty", TRUE, requestBody.len, "", "", 0, 0)
        EXCEPT !.ct = contentType]

parseRawBody(requestBody, contentType) ==
    IF requestBody.formData # "absent"
    THEN [Body("object", "absent",
               IF requestBody.formData = "fields" THEN "nonempty" ELSE "empty",
               TRUE, -1, "", "", 0, 0) EXCEPT !.ct = contentType]
    ELSE IF requestBody.len > 0
    THEN IF requestBody.len > MAX_BODY_CHARS
         THEN [Body("none", "absent", "absent", FALSE, MAX_BODY_CHARS, "", "", 0, 0)
                 EXCEPT !.ct = contentType]
         ELSE IF TypeIncludes(contentType, "application/json")
              THEN JsonBody(requestBody, contentType)
         ELSE IF TypeIncludes(contentType, "application/x-www-form-urlencoded")
              THEN FormBody(requestBody, contentType)
         ELSE IF requestBody.json \in {"scalar", "object"} THEN JsonBody(requestBody, contentType)
         ELSE IF requestBody.formLike THEN FormBody(requestBody, contentType)
         ELSE [Body("none", "absent", "absent", FALSE, requestBody.len, "", "", 0, 0)
                 EXCEPT !.ct = contentType]
    ELSE Null

\* parseRawBody of the background script that carries its own decoder: no
\* limit on the decoded text, and text that is no JSON stays text
parseRawBodyInline(requestBody, contentType) ==
    IF requestBody.formData # "absent"
    THEN [Body("object", "absent",
               IF requestBody.formData = "fields" THEN "nonempty" ELSE "empty",
               TRUE, -1, "", "", 0, 0) EXCEPT !.ct = contentType]
    ELSE IF requestBody.len > 0
    THEN IF TypeIncludes(contentType, "application/json")
         THEN JsonBody(requestBody, contentType)
         ELSE IF TypeIncludes(contentType, "application/x-www-form-urlencoded")
              THEN FormBody(requestBody, contentType)
         ELSE JsonBody(requestBody, contentType)
    ELSE Null

-----------------------------------------------------------------------------
(* Request records.  History fields of a record:                           *)
(*   via        how the current body was set: "none", "pull" (from the     *)
(*              caches at creation), "net" (request body), "attach"        *)
(*              (capturedPayload), "websdk"                                *)
(*   pulledMids the hook messages whose payload was pulled at creation     *)
(*   hist       the bodies the record has had, oldest first                *)
(*   stage      the request's place in its lifecycle                       *)

SetBody(entry, body, via) ==
    [entry EXCEPT !.body = body, !.via = via,
                  !.hist = IF body = Last(@) THEN @ ELSE Append(@, body)]

\* new Map(requests.map(r => [r.requestId, r])): the last record wins
IndexOf(reqs) ==
    [id \in {reqs[i].requestId : i \in 1..Len(reqs)} |->
        LET hits == {i \in 1..Len(reqs) : reqs[i].requestId = id}
        IN  CHOOSE i \in hits : \A j \in hits : i >= j]

\* requests.slice(-maxEntries)
trimRequests(s) ==
    IF Len(s.requests) <= s.settings.maxEntries THEN s
    ELSE LET kept == IF s.settings.maxEntries = 0 THEN s.requests
                     ELSE SubSeq(s.requests,
                                 Len(s.requests) - s.settings.maxEntries + 1,
                                 Len(s.requests))
         IN  [s EXCEPT !.requests = kept, !.requestIndex = IndexOf(kept)]

EmptyNav == [navId |-> 0, pageUrl |-> "", pendingUrl |-> "", pendingAt |-> 0]
NavOf(s, tabId) == IF s.navState[tabId] = Null THEN EmptyNav ELSE s.navState[tabId]

PayloadOf(entry) == IF entry = Null THEN Null ELSE entry.payload
PageUrlOf(entry) == IF entry = Null THEN "" ELSE entry.pageUrl
MidsOf(entry) ==
    IF entry = Null \/ entry.payload = Null THEN {} ELSE {entry.payload.mid}

addRequest(s, details) ==
    LET sessionId == IF s.currentSessionId # NullId THEN s.currentSessionId
                     ELSE s.settings.selectedSessionId
        nav == NavOf(s, details.tabId)
        cachedUrl == s.tabUrlCache[details.tabId]
        requestId == getRequestIdFromUrl(details.url)
        session == SessionById(s, sessionId)
        uatConfig == IF session # Null /\ session.site # ""
                     THEN s.uatConfigs[session.site] ELSE Null
        Entry(cachedBody, pageUrl, pulled) ==
                 [requestId |-> details.requestId,
                  sessionId |-> sessionId,
                  tabId |-> details.tabId,
                  url |-> details.url,
                  documentUrl |-> details.documentUrl,
                  initiator |-> details.initiator,
                  serviceId |-> resolveServiceIdForDomain(
                                   getDomainFromUrl(details.url),
                                   s.settings.serviceMappings),
                  timeStamp |-> details.timeStamp,
                  startTime |-> details.timeStamp,
                  statusCode |-> "",
                  statusLine |-> "",
                  duration |-> -1,
                  requestHeaders |-> <<>>,
                  query |-> parseQueryString(details.url),
                  body |-> cachedBody,
                  pageUrl |-> IF (pageUrl = "" \/ pageUrl = "/") /\ cachedBody # Null
                              THEN Or(extractPageUrlFromPayload(cachedBody), pageUrl)
                              ELSE pageUrl,
                  navId |-> nav.navId,
                  uat |-> IF session # Null /\ session.uatEnabled /\ uatConfig # Null
                          THEN [status |-> "pending", results |-> <<>>]
                          ELSE Null,
                  via |-> IF cachedBody = Null THEN "none" ELSE "pull",
                  pulledMids |-> pulled,
                  hist |-> <<cachedBody>>,
                  stage |-> "started"]
        \* c, h: what the request-id (or URL) cache and the hook queues gave
        Record(c, h) ==
            trimRequests(
                [h.st EXCEPT
                    !.requests =
                        Append(@, Entry(IF PayloadOf(h.res) # Null THEN PayloadOf(h.res)
                                        ELSE PayloadOf(c.res),
                                        Or(nav.pageUrl, Or(nav.pendingUrl, Or(cachedUrl,
                                        Or(details.documentUrl, Or(details.initiator,
                                        Or(Or(PageUrlOf(h.res), PageUrlOf(c.res)),
                                           extractPageUrlFromRequest(details.url))))))),
                                        MidsOf(h.res) \cup MidsOf(c.res))),
                    !.requestIndex = MapSet(@, details.requestId, Len(s.requests) + 1),
                    !.lastRequestAt = s.now,
                    !.idlePrompted = FALSE])
        Second(h1) ==
            IF h1.res # Null THEN h1
            ELSE pullHookPayloadByUrl(h1.st, details.url, details.timeStamp)
        Hooked(c) ==
            Record(c, Second(pullHookPayload(c.st, details.tabId, details.url,
                                             details.timeStamp)))
    IN  Hooked(IF requestId # "" THEN pullCachedPayload(s, requestId)
               ELSE pullCachedPayloadByUrl(s, details.tabId, details.url,
                                           details.timeStamp))

\* Object.assign(entry, patch), patch a record
Assign(entry, patch) ==
    [k \in DOMAIN entry |-> IF k \in DOMAIN patch THEN patch[k] ELSE entry[k]]

updateRequest(s, requestId, patch) ==
    LET i == MapGet(s.requestIndex, requestId)
    IN  IF i = 0 THEN s
        ELSE LET e1 == Assign(s.requests[i], patch)
                 e2 == IF e1.pageUrl = "" /\ e1.body # Null
                       THEN [e1 EXCEPT !.pageUrl =
                                Or(extractPageUrlFromPayload(e1.body), e1.pageUrl)]
                       ELSE e1
             IN  evaluateUatForRequest([s EXCEPT !.requests[i] = e2], i)

isWebsdkRequest(entry) ==
    \E i \in 1..Len(entry.query) : entry.query[i].key = "configId"

\* what every attachment does to the record it has chosen
AttachTo(s, i, payload, pageUrl, via) ==
    LET e1 == SetBody(s.requests[i], payload, via)
        e2 == IF (e1.pageUrl = "" \/ e1.pageUrl = "/") /\ pageUrl # ""
              THEN [e1 EXCEPT !.pageUrl = pageUrl] ELSE e1
        e3 == IF e2.pageUrl = "" \/ e2.pageUrl = "/"
              THEN [e2 EXCEPT !.pageUrl = Or(extractPageUrlFromPayload(e2.body), @)]
              ELSE e2
    IN  evaluateUatForRequest([s EXCEPT !.requests[i] = e3], i)

\* requests.forEach(entry => ...), Step(t, i) handling record i
ForEach(s, Step(_, _)) ==
    LET after[i \in 0..Len(s.requests)] == IF i = 0 THEN s ELSE Step(after[i - 1], i)
    IN  after[Len(s.requests)]

attachPayloadToRequests(s, requestId, payload, pageUrl) ==
    IF requestId = "" THEN s
    ELSE ForEach(s, LAMBDA t, i :
            IF ~shouldReplaceBody(t.requests[i].body, payload) THEN t
            ELSE IF getRequestIdFromUrl(t.requests[i].url) # ""
                    /\ getRequestIdFromUrl(t.requests[i].url) = requestId
                 THEN AttachTo(t, i, payload, pageUrl, "attach")
                 ELSE t)

attachPayloadToRequestsByUrl(s, tabId, url, payload, pageUrl) ==
    IF tabId = NoTab \/ url = "" THEN s
    ELSE ForEach(s, LAMBDA t, i :
            IF ~shouldReplaceBody(t.requests[i].body, payload) THEN t
            ELSE IF t.requests[i].tabId # tabId THEN t
            ELSE IF t.requests[i].url # url THEN t
            ELSE AttachTo(t, i, payload, pageUrl, "attach"))

attachPageContextToRequestsOverwriting(s, requestId, pageUrl) ==
    IF requestId = "" \/ pageUrl = "" THEN s
    ELSE ForEach(s, LAMBDA t, i :
            IF getRequestIdFromUrl(t.requests[i].url) # ""
                  /\ getRequestIdFromUrl(t.requests[i].url) = requestId
            THEN [t EXCEPT !.requests[i].pageUrl = pageUrl]
            ELSE t)

attachPageContextToRequests(s, requestId, pageUrl) ==
    IF requestId = "" \/ pageUrl = "" THEN s
    ELSE ForEach(s, LAMBDA t, i :
            IF t.requests[i].pageUrl # "" /\ t.requests[i].pageUrl # "/" THEN t
            ELSE IF getRequestIdFromUrl(t.requests[i].url) # ""
                    /\ getRequestIdFromUrl(t.requests[i].url) = requestId
                 THEN [t EXCEPT !.requests[i].pageUrl = pageUrl]
                 ELSE t)

attachPageContextToRequestsByUrl(s, tabId, url, pageUrl) ==
    IF tabId = NoTab \/ url = "" \/ pageUrl = "" THEN s
    ELSE ForEach(s, LAMBDA t, i :
            IF t.requests[i].pageUrl # "" /\ t.requests[i].pageUrl # "/" THEN t
            ELSE IF t.requests[i].tabId # tabId THEN t
            ELSE IF t.requests[i].url # url THEN t
            ELSE [t EXCEPT !.requests[i].pageUrl = pageUrl])

\* filtered.reduce(...): the first record with the latest timeStamp
Latest(s, positions) ==
    CHOOSE i \in positions :
        \A j \in positions :
            \/ s.requests[i].timeStamp > s.requests[j].timeStamp
            \/ (s.requests[i].timeStamp = s.requests[j].timeStamp /\ i <= j)

attachHookPayloadToRecent(s, url, tabId, payload, pageUrl, hookTs) ==
    IF url = "" \/ payload = Null THEN s
    ELSE LET filtered ==
                 {i \in 1..Len(s.requests) :
                    /\ s.requests[i].url = url
                    /\ (tabId = NoTab \/ s.requests[i].tabId = tabId)
                    /\ Abs(TimeOr(s, hookTs) - TimeOr(s, s.requests[i].timeStamp))
                         < HOOK_WINDOW_MS}
         IN  IF filtered = {} THEN s
             ELSE IF ~shouldReplaceBody(s.requests[Latest(s, filtered)].body, payload)
                  THEN s
                  ELSE AttachTo(s, Latest(s, filtered), payload, pageUrl, "attach")

attachWebsdkPayloadToRecentAnyTab(s, tabId, payload, pageUrl, hookTs) ==
    IF payload = Null THEN s
    ELSE LET filtered ==
                 {i \in 1..Len(s.requests) :
                    /\ isWebsdkRequest(s.requests[i])
                    /\ Abs(TimeOr(s, hookTs) - TimeOr(s, s.requests[i].timeStamp))
                         < HOOK_WINDOW_MS}
         IN  IF filtered = {} THEN s
             ELSE IF ~shouldReplaceBody(s.requests[Latest(s, filtered)].body, payload)
                  THEN s
                  ELSE AttachTo(s, Latest(s, filtered), payload, pageUrl, "websdk")

attachWebsdkPayloadToRecent(s, tabId, payload, pageUrl, hookTs) ==
    IF payload = Null THEN s
    ELSE LET filtered ==
                 {i \in 1..Len(s.requests) :
                    /\ s.requests[i].tabId = tabId
                    /\ isWebsdkRequest(s.requests[i])
                    /\ Abs(TimeOr(s, hookTs) - TimeOr(s, s.requests[i].timeStamp))
                         < HOOK_WINDOW_MS}
         IN  IF filtered = {} THEN s
             ELSE IF ~shouldReplaceBody(s.requests[Latest(s, filtered)].body, payload)
                  THEN s
                  ELSE AttachTo(s, Latest(s, filtered), payload, pageUrl, "websdk")

-----------------------------------------------------------------------------
(* UAT configuration.  A raw config is [assertions |-> seq, global |-> g]   *)
(* with "" for a missing string field and Null for a missing global.       *)

normalizeCondition(cond) ==
    [source |-> Or(cond.source, "payload"),
     path |-> cond.path,
     operator |-> Or(cond.operator, "exists"),
     expected |-> cond.expected]

NormalizeAll(conds) == [i \in 1..Len(conds) |-> normalizeCondition(conds[i])]

normalizeAssertion(assertion) ==
    [id |-> assertion.id,
     conditionsLogic |-> IF assertion.conditionsLogic = "any" THEN "any" ELSE "all",
     conditions |-> NormalizeAll(assertion.conditions),
     validations |-> NormalizeAll(assertion.validations),
     scope |-> IF assertion.scope = "page" THEN "page" ELSE "request",
     count |-> assertion.count,
     value |-> assertion.value]

normalizeGlobalConfig(globalConfig) ==
    IF globalConfig = Null
    THEN [includeServices |-> {}, excludeServices |-> {},
          includeConditions |-> <<>>, excludeConditions |-> <<>>]
    ELSE [includeServices |-> globalConfig.includeServices,
          excludeServices |-> globalConfig.excludeServices,
          includeConditions |-> NormalizeAll(globalConfig.includeConditions),
          excludeConditions |-> NormalizeAll(globalConfig.excludeConditions)]

normalizeUatConfig(config) ==
    [global |-> normalizeGlobalConfig(config.global),
     assertions |-> [i \in 1..Len(config.assertions) |->
                        normalizeAssertion(config.assertions[i])]]

\* the errors of one condition or validation: a missing path, a missing
\* operator, a missing expected value of an operator that compares
ConditionErrors(condition) ==
    {e \in {"path", "operator", "expected"} :
        \/ e = "path" /\ condition.path = "" /\ condition.source # "raw"
        \/ e = "operator" /\ condition.operator = ""
        \/ e = "expected"
              /\ condition.operator \in
                    {"equals", "contains", "starts_with", "ends_with", "regex",
                     "in", "not_in", "gt", "gte", "lt", "lte", "range"}
              /\ condition.expected.t = "undefined"}

\* the errors of the import dialog's validator, as <<place, index, error>>;
\* the lists of a modelled config are arrays
validateUatConfig(config) ==
    LET Of(place, conditions) ==
            UNION { {<<place, i, e>> : e \in ConditionErrors(conditions[i])} :
                      i \in 1..Len(conditions) }
        OfAssertion(index, assertion) ==
            {<<index, 0, e>> :
                e \in {x \in {"validations", "conditionsLogic", "scope", "count", "value"} :
                    \/ x = "validations" /\ Len(assertion.validations) = 0
                    \/ x = "conditionsLogic"
                          /\ assertion.conditionsLogic \notin {"", "all", "any"}
                    \/ x = "scope" /\ assertion.scope \notin {"", "page", "request"}
                    \/ x = "count" /\ assertion.scope = "page"
                          /\ assertion.count \notin {"exactly", "at_least", "at_most"}
                    \/ x = "value" /\ assertion.scope = "page"
                          /\ assertion.value.t \in {"undefined", "null", "nan"}}}
            \cup Of(<<index, "conditions">>, assertion.conditions)
            \cup Of(<<index, "validations">>, assertion.validations)
    IN  (IF config.global = Null THEN {}
         ELSE Of("include", config.global.includeConditions)
              \cup Of("exclude", config.global.excludeConditions))
        \cup UNION {OfAssertion(i, config.assertions[i]) :
                      i \in 1..Len(config.assertions)}

-----------------------------------------------------------------------------
(* Message handlers, each a function from the state before to the state    *)
(* after.                                                                  *)

\* the id is `session-${Date.now()}-${random}`, a new one each time:
\* s.sessionSeq counts the sessions created so far
createSession(s, name, site, lockTabId, uatEnabled) ==
    [id |-> s.sessionSeq + 1, name |-> name, site |-> site,
     lockTabId |-> lockTabId, paused |-> FALSE, createdAt |-> s.now,
     uatEnabled |-> uatEnabled]

setSettings(s0, patch) ==
    LET s == Begin(s0)
    IN  [s EXCEPT !.settings = Assign(@, patch)]

startSession(s0, message) ==
    LET s == Begin(s0)
        previousId == ActiveSessionId(s)
        paused == [i \in 1..Len(s.sessions) |->
                     IF previousId # NullId /\ s.sessions[i].id = previousId
                     THEN [s.sessions[i] EXCEPT !.paused = TRUE]
                     ELSE s.sessions[i]]
        session == createSession(s, "Session", message.site, message.lockTabId,
                                 message.uatEnabled)
    IN  IF message.site = "" THEN s
        ELSE [s EXCEPT !.sessions = <<session>> \o paused,
                       !.currentSessionId = session.id,
                       !.settings.selectedSessionId = session.id,
                       !.settings.capturePaused = FALSE,
                       !.lastRequestAt = s.now,
                       !.idlePrompted = FALSE]

setUatConfig(s0, site, config) ==
    LET s == Begin(s0)
        s1 == [s EXCEPT !.uatConfigs[site] = normalizeUatConfig(config)]
    IN  IF site = "" \/ config = Null THEN s
        ELSE ForEach(s1, LAMBDA t, i :
                LET session == SessionById(t, t.requests[i].sessionId)
                IN  IF session = Null THEN t
                    ELSE IF ~session.uatEnabled THEN t
                    ELSE IF session.site # site THEN t
                    ELSE evaluateUatForRequest(t, i))

\* settings.selectedSessionId || currentSessionId is stopped
stopActiveSession(s0) ==
    LET s == Begin(s0)
        sessionId == ActiveSessionId(s)
    IN  IF sessionId = NullId THEN s
        ELSE [s EXCEPT !.sessions =
                           [i \in 1..Len(s.sessions) |->
                              IF s.sessions[i].id = sessionId
                              THEN [s.sessions[i] EXCEPT !.paused = TRUE]
                              ELSE s.sessions[i]],
                       !.settings.selectedSessionId = NullId,
                       !.currentSessionId = NullId,
                       !.settings.capturePaused = TRUE,
                       !.idlePrompted = FALSE]

\* the alarm's check; the sessionIdle message goes out when idlePrompted
\* becomes true
checkForIdleSession(s0) ==
    LET s == Begin(s0)
    IN  IF s.settings.capturePaused THEN s
        ELSE IF ActiveSessionId(s) = NullId THEN s
        ELSE IF s.idlePrompted THEN s
        ELSE IF s.now - s.lastRequestAt < IDLE_TIMEOUT_MS THEN s
        ELSE [s EXCEPT !.idlePrompted = TRUE]

idleExtend(s0) ==
    LET s == Begin(s0)
    IN  [s EXCEPT !.lastRequestAt = s.now, !.idlePrompted = FALSE]

selectSession(s0, id) ==
    LET s == Begin(s0)
        session == SessionById(s, id)
    IN  IF session = Null THEN s
        ELSE [s EXCEPT !.settings.selectedSessionId = id,
                       !.settings.capturePaused = session.paused]

pauseSessionMarkOnly(s0, id) ==
    LET s == Begin(s0)
        session == SessionById(s, id)
    IN  IF session = Null THEN s
        ELSE [s EXCEPT !.settings.selectedSessionId = id,
                       !.currentSessionId = id,
                       !.sessions =
                           [i \in 1..Len(s.sessions) |->
                              IF s.sessions[i].id = id
                              THEN [s.sessions[i] EXCEPT !.paused = TRUE]
                              ELSE s.sessions[i]],
                       !.idlePrompted = FALSE]

pauseSession(s0, id) ==
    LET s == Begin(s0)
        session == SessionById(s, id)
    IN  IF session = Null THEN s
        ELSE [s EXCEPT !.settings.selectedSessionId = id,
                       !.currentSessionId = id,
                       !.sessions =
                           [i \in 1..Len(s.sessions) |->
                              IF s.sessions[i].id = id
                              THEN [s.sessions[i] EXCEPT !.paused = TRUE]
                              ELSE s.sessions[i]],
                       !.settings.capturePaused = TRUE,
                       !.idlePrompted = FALSE]

deleteSessionKeepingRecords(s0, id) ==
    LET s == Begin(s0)
        remaining == SelectSeq(s.sessions, LAMBDA x : x.id # id)
        selected == IF s.settings.selectedSessionId = id
                    THEN (IF Len(remaining) > 0 THEN remaining[1].id ELSE NullId)
                    ELSE s.settings.selectedSessionId
    IN  IF id = NullId THEN s
        ELSE [s EXCEPT !.sessions = remaining,
                       !.settings.selectedSessionId = selected,
                       !.currentSessionId =
                           IF s.currentSessionId = id THEN selected ELSE @,
                       !.idlePrompted = FALSE]

deleteSession(s0, id) ==
    LET s == Begin(s0)
        Rest(remaining, kept) ==
            LET selected == IF s.settings.selectedSessionId = id
                            THEN (IF Len(remaining) > 0 THEN remaining[1].id ELSE NullId)
                            ELSE s.settings.selectedSessionId
            IN  [s EXCEPT !.sessions = remaining,
                          !.requests = kept,
                          !.requestIndex = IndexOf(kept),
                          !.settings.selectedSessionId = selected,
                          !.currentSessionId =
                              IF s.currentSessionId = id THEN selected ELSE @,
                          !.idlePrompted = FALSE]
    IN  IF id = NullId THEN s
        ELSE Rest(SelectSeq(s.sessions, LAMBDA x : x.id # id),
                  SelectSeq(s.requests, LAMBDA r : r.sessionId # id))

\* runtime.onMessage: the messages of the session list, the idle dialog and
\* the settings
onMessage(s, message) ==
    CASE message.type = "startSession" -> startSession(s, message)
      [] message.type = "setSettings" -> setSettings(s, message.settings)
      [] message.type = "idleExtend" -> idleExtend(s)
      [] message.type = "idleStop" -> stopActiveSession(s)
      [] message.type = "selectSession" -> selectSession(s, message.id)
      [] message.type = "pauseSession" -> pauseSession(s, message.id)
      [] message.type = "deleteSession" -> deleteSession(s, message.id)
      [] OTHER -> s

DroppedIgnoringAllowlist(s, message) ==
    \/ s.settings.capturePaused
    \/ s.settings.selectedSessionId = NullId
    \/ ~s.settings.enableHooks

\* the checks a hook message passes before it is used
Dropped(s, message) ==
    \/ s.settings.capturePaused
    \/ s.settings.selectedSessionId = NullId
    \/ ~s.settings.enableHooks
    \/ (message.url # "" /\ ~isAllowed(s, message.url))

capturedPayload(s0, message, tabId) ==
    LET pageUrl == message.pageUrl
        CacheById(s) ==
            IF message.requestId # ""
            THEN cachePayload(s, message.requestId, message.payload, pageUrl)
            ELSE s
        CacheByUrl(s) ==
            IF message.url # "" /\ tabId # NoTab
            THEN cacheHookPayload(
                    cachePayloadByUrl(s, tabId, message.url, message.payload, pageUrl),
                    tabId, message.url, message.payload, pageUrl, message.hookTs)
            ELSE s
        AttachById(s) ==
            IF message.requestId # ""
            THEN attachPayloadToRequests(s, message.requestId, message.payload, pageUrl)
            ELSE s
        AttachByUrl(s) ==
            IF message.url # "" /\ tabId # NoTab
            THEN attachPayloadToRequestsByUrl(s, tabId, message.url,
                                              message.payload, pageUrl)
            ELSE s
        AttachRecent(s) ==
            IF message.url # ""
            THEN attachHookPayloadToRecent(s, message.url, tabId, message.payload,
                                           pageUrl, message.hookTs)
            ELSE s
        Handle(s) ==
            IF message.payload = Null THEN s
            ELSE IF Dropped(s, message) THEN s
            ELSE AttachRecent(AttachByUrl(AttachById(CacheByUrl(CacheById(s)))))
    IN  Handle(Begin(s0))

pageContext(s0, message, tabId) ==
    LET pageUrl == message.pageUrl
        CacheById(s) ==
            IF message.requestId # ""
            THEN cachePageContext(s, message.requestId, pageUrl) ELSE s
        CacheByUrl(s) ==
            IF message.url # "" /\ tabId # NoTab
            THEN cachePageContextByUrl(s, tabId, message.url, pageUrl) ELSE s
        AttachById(s) ==
            IF message.requestId # ""
            THEN attachPageContextToRequests(s, message.requestId, pageUrl) ELSE s
        AttachByUrl(s) ==
            IF message.url # "" /\ tabId # NoTab
            THEN attachPageContextToRequestsByUrl(s, tabId, message.url, pageUrl)
            ELSE s
        Handle(s) ==
            IF Dropped(s, message) THEN s
            ELSE AttachByUrl(AttachById(CacheByUrl(CacheById(s))))
    IN  Handle(Begin(s0))

capturedWebsdk(s0, message, tabId) ==
    LET s == Begin(s0)
    IN  IF message.payload = Null THEN s
        ELSE IF s.settings.capturePaused \/ s.settings.selectedSessionId = NullId
             THEN s
        ELSE IF ~s.settings.enableHooks THEN s
        ELSE IF tabId # NoTab
             THEN attachWebsdkPayloadToRecent(s, tabId, message.payload,
                                              message.pageUrl, message.hookTs)
        ELSE s

-----------------------------------------------------------------------------
(* webRequest handlers.                                                    *)

onBeforeRequest(s0, details) ==
    LET s == Begin(s0)
        sessionId == ActiveSessionId(s)
        session == SessionById(s, sessionId)
        \* entry.body = parsedBody and the page URL it may carry
        WithBody(entry, parsedBody) ==
            IF parsedBody # Null
            THEN LET e == SetBody(entry, parsedBody, "net")
                 IN  IF e.pageUrl = ""
                     THEN [e EXCEPT !.pageUrl =
                              Or(extractPageUrlFromPayload(e.body), e.pageUrl)]
                     ELSE e
            ELSE entry
        Parsed(s1, i) ==
            IF i = 0 THEN s1
            ELSE evaluateUatForRequest(
                    [s1 EXCEPT !.requests[i] =
                        WithBody(@, parseRawBody(details.requestBody, ""))], i)
        Added(s1) ==
            IF details.requestBody = Null THEN s1
            ELSE Parsed(s1, MapGet(s1.requestIndex, details.requestId))
    IN  IF s.settings.capturePaused THEN s
        ELSE IF ~isAllowed(s, details.url) THEN s
        ELSE IF sessionId = NullId THEN s
        ELSE IF session = Null THEN s
        ELSE IF session.lockTabId # NoTab /\ details.tabId # session.lockTabId THEN s
        ELSE Added(addRequest(s, details))

ContentTypeOf(headers) ==
    LET i == FindIndex(headers, LAMBDA h : Lower(h.name) = "content-type")
    IN  IF i = 0 THEN "" ELSE headers[i].value

onBeforeSendHeaders(s0, details) ==
    LET s == Begin(s0)
        contentType == ContentTypeOf(details.requestHeaders)
        i == MapGet(s.requestIndex, details.requestId)
        s1 == IF i # 0 /\ s.requests[i].body # Null /\ s.requests[i].body.ct = ""
              THEN [s EXCEPT !.requests[i].body.ct = contentType]
              ELSE s
    IN  IF s.settings.capturePaused THEN s
        ELSE IF ~isAllowed(s, details.url) THEN s
        ELSE updateRequest(s1, details.requestId,
                           [requestHeaders |-> details.requestHeaders,
                            stage |-> "headers"])

onCompleted(s0, details) ==
    LET s == Begin(s0)
        i == MapGet(s.requestIndex, details.requestId)
        duration == IF i # 0 THEN details.timeStamp - s.requests[i].startTime ELSE -1
    IN  IF ~isAllowed(s, details.url) THEN s
        ELSE updateRequest(s, details.requestId,
                           [statusCode |-> details.statusCode,
                            statusLine |-> details.statusLine,
                            duration |-> duration,
                            stage |-> "done"])

onErrorOccurred(s0, details) ==
    LET s == Begin(s0)
    IN  IF ~isAllowed(s, details.url) THEN s
        ELSE updateRequest(s, details.requestId,
                           [statusCode |-> "",
                            statusLine |-> Or(details.error, "error"),
                            stage |-> "done"])

-----------------------------------------------------------------------------
(* webNavigation handlers.  details.frameId is 0 for the top frame.        *)

\* as onNavCommitted, showing the committing URL at once
onNavCommittedEager(s0, details) ==
    LET s == Begin(s0)
        existing == NavOf(s, details.tabId)
    IN  IF details.frameId # 0 THEN s
        ELSE [s EXCEPT !.navState[details.tabId] =
                           [navId |-> existing.navId + 1,
                            pageUrl |-> details.url,
                            pendingUrl |-> details.url,
                            pendingAt |-> TimeOr(s, details.timeStamp)],
                       !.tabUrlCache[details.tabId] = details.url]

onNavCommitted(s0, details) ==
    LET s == Begin(s0)
        existing == NavOf(s, details.tabId)
    IN  IF details.frameId # 0 THEN s
        ELSE [s EXCEPT !.navState[details.tabId] =
                           [navId |-> existing.navId + 1,
                            pageUrl |-> existing.pageUrl,
                            pendingUrl |-> details.url,
                            pendingAt |-> TimeOr(s, details.timeStamp)],
                       !.tabUrlCache[details.tabId] = details.url]

\* as onNavCompleted, counting the event as a page view
onNavCompletedCounting(s0, details) ==
    LET s == Begin(s0)
        existing == NavOf(s, details.tabId)
    IN  IF details.frameId # 0 THEN s
        ELSE [s EXCEPT !.navState[details.tabId] =
                           [navId |-> existing.navId + 1,
                            pageUrl |-> Or(existing.pendingUrl, details.url),
                            pendingUrl |-> "",
                            pendingAt |-> 0],
                       !.tabUrlCache[details.tabId] = details.url]

onNavCompleted(s0, details) ==
    LET s == Begin(s0)
        existing == NavOf(s, details.tabId)
    IN  IF details.frameId # 0 THEN s
        ELSE [s EXCEPT !.navState[details.tabId] =
                           [navId |-> existing.navId,
                            pageUrl |-> Or(existing.pendingUrl, details.url),
                            pendingUrl |-> "",
                            pendingAt |-> 0],
                       !.tabUrlCache[details.tabId] = details.url]

onHistoryStateUpdated(s0, details) ==
    LET s == Begin(s0)
        existing == NavOf(s, details.tabId)
    IN  IF details.frameId # 0 THEN s
        ELSE [s EXCEPT !.navState[details.tabId] =
                           [navId |-> existing.navId + 1,
                            pageUrl |-> details.url,
                            pendingUrl |-> "",
                            pendingAt |-> 0],
                       !.tabUrlCache[details.tabId] = details.url]

-----------------------------------------------------------------------------
(* The environment: what the page hooks, the browser and the UI send.      *)

T0 == 1000000                    \* Date.now() when the script starts
TickSteps == {130000}            \* beyond every matching window and the TTL

\* A hooked payload: { type, contentType, raw, parsed } as the page hook
\* builds it, sent with a content type.
HookPayloads(mid, hts) ==
    { [Body("object", "truthy", "absent", TRUE, 40, "", "1", mid, hts)
         EXCEPT !.ct = "text/plain"] }

WebsdkPayloads(mid, hts) ==
    { [Body("object", "truthy", "absent", TRUE, 50, "", "1", mid, hts)
         EXCEPT !.ct = "application/json"] }

\* details.requestBody: undefined, or an event JSON beyond the decoder's limit
RequestBodies ==
    { Null,
      [formData |-> "absent", len |-> MAX_BODY_CHARS + 1, json |-> "object",
       evs |-> "truthy", params |-> "absent", other |-> TRUE, purl |-> "",
       x |-> "1", formLike |-> FALSE] }

\* details.initiator: the page's origin for the SDK's interact calls, none
\* for the collect calls
InitiatorOf(url) == IF url = U_sdk THEN Origin ELSE ""

SettingsPatches == { [enableHooks |-> TRUE] }

HeaderLists == { <<[name |-> "Content-Type", value |-> "application/json"]>> }

\* one page-scoped counted assertion and one request-scoped validation
RawConfigs ==
    { [global |-> Null,
       assertions |->
         << [id |-> "one-per-page", conditionsLogic |-> "", conditions |-> <<>>,
             validations |-> <<>>, scope |-> "page", count |-> "exactly",
             value |-> [t |-> "num", n |-> 1]],
            [id |-> "x-is-1", conditionsLogic |-> "", conditions |-> <<>>,
             validations |-> << [source |-> "", path |-> "x", operator |-> "equals",
                                 expected |-> [t |-> "str", v |-> "1"]] >>,
             scope |-> "", count |-> "", value |-> [t |-> "undefined"]] >> ] }

RbIdle == [phase |-> "idle"]

Init ==
    /\ now = T0
    /\ settings = [allowlist |-> {"edge.adobedc.net"}, capturePaused |-> FALSE,
                   maxEntries |-> DEFAULT_MAX_ENTRIES, selectedSessionId |-> NullId,
                   enableHooks |-> FALSE, debugHooks |-> FALSE,
                   serviceMappings |-> <<>>]
    /\ sessions = <<>>
    /\ currentSessionId = NullId
    /\ uatConfigs = [site \in {SiteA} |-> Null]
    /\ navState = [t \in Tabs |-> Null]
    /\ tabUrlCache = [t \in Tabs |-> ""]
    /\ requests = <<>>
    /\ requestIndex = <<>>
    /\ payloadCache = [k \in UrlRequestIds |-> Null]
    /\ payloadCacheByUrlTab = [t \in Tabs |-> <<>>]
    /\ hookQueueByTabUrl = [k \in Tabs \X Urls |-> <<>>]
    /\ hookQueueByUrl = [u \in Urls |-> <<>>]
    /\ lastRequestAt = T0
    /\ idlePrompted = FALSE
    /\ last = Fresh
    /\ counters = [messages |-> 0, requests |-> 0, ticks |-> 0, events |-> 0,
                   navs |-> 0, loading |-> [t \in Tabs |-> ""],
                   sessions |-> 0, ops |-> 0, deleted |-> {}, extends |-> 0,
                   atPrompt |-> <<>>, stopped |-> NullId, stoppedAt |-> 0]
    /\ rb = RbIdle

Tick ==
    /\ counters.ticks < MaxTicks
    /\ \E d \in TickSteps :
          Becomes([State EXCEPT !.now = @ + d, !.last = Fresh])
    /\ counters' = [counters EXCEPT !.ticks = @ + 1]
    /\ UNCHANGED rb

\* the UI switches the page hooks on
SetSettings ==
    /\ \E patch \in SettingsPatches : Becomes(setSettings(State, patch))
    /\ UNCHANGED <<counters, rb>>

StartSession ==
    /\ Len(sessions) < MaxSessions
    /\ \E u \in BOOLEAN :
          Becomes(startSession(State, [site |-> SiteA, lockTabId |-> NoTab,
                                       uatEnabled |-> u]))
    /\ counters' = [counters EXCEPT !.sessions = @ + 1]
    /\ UNCHANGED rb

SetUatConfig ==
    /\ \E c \in RawConfigs : Becomes(setUatConfig(State, SiteA, c))
    /\ UNCHANGED <<counters, rb>>

\* the page hook takes requestId from the URL and stamps hookTs and pageUrl
HookMessage(url, payload) ==
    [url |-> url, requestId |-> getRequestIdFromUrl(url), payload |-> payload,
     pageUrl |-> PageA, hookTs |-> now]

CapturedPayload ==
    /\ counters.messages < MaxMessages
    /\ counters.messages + counters.requests < MaxInputs
    /\ \E t \in Tabs, u \in Urls, p \in HookPayloads(counters.messages + 1, now) :
          Becomes(capturedPayload(State, HookMessage(u, p), t))
    /\ counters' = [counters EXCEPT !.messages = @ + 1]
    /\ UNCHANGED rb

PageContext ==
    /\ counters.messages < MaxMessages
    /\ counters.messages + counters.requests < MaxInputs
    /\ \E t \in Tabs, u \in Urls :
          Becomes(pageContext(State, HookMessage(u, Null), t))
    /\ counters' = [counters EXCEPT !.messages = @ + 1]
    /\ UNCHANGED rb

CapturedWebsdk ==
    /\ counters.messages < MaxMessages
    /\ counters.messages + counters.requests < MaxInputs
    /\ \E t \in Tabs, p \in WebsdkPayloads(counters.messages + 1, now) :
          Becomes(capturedWebsdk(State, HookMessage("", p), t))
    /\ counters' = [counters EXCEPT !.messages = @ + 1]
    /\ UNCHANGED rb

OnBeforeRequest ==
    /\ counters.requests < MaxRequests
    /\ counters.messages + counters.requests < MaxInputs
    /\ \E t \in Tabs, u \in Urls, body \in RequestBodies :
          Becomes(onBeforeRequest(State,
                    [requestId |-> counters.requests + 1, tabId |-> t, url |-> u,
                     timeStamp |-> now, documentUrl |-> "",
                     initiator |-> InitiatorOf(u), requestBody |-> body]))
    /\ counters' = [counters EXCEPT !.requests = @ + 1]
    /\ UNCHANGED rb

\* a request observed now, without a request body
PlainRequest(id, tabId, url) ==
    [requestId |-> id, tabId |-> tabId, url |-> url, timeStamp |-> now,
     documentUrl |-> "", initiator |-> InitiatorOf(url), requestBody |-> Null]

\* the later events of a request the script has recorded
OnBeforeSendHeaders ==
    /\ counters.events < MaxEvents
    /\ \E i \in 1..Len(requests), h \in HeaderLists :
          /\ requests[i].stage = "started"
          /\ Becomes(onBeforeSendHeaders(State,
                       [requestId |-> requests[i].requestId, url |-> requests[i].url,
                        requestHeaders |-> h]))
    /\ counters' = [counters EXCEPT !.events = @ + 1]
    /\ UNCHANGED rb

OnCompleted ==
    /\ counters.events < MaxEvents
    /\ \E i \in 1..Len(requests) :
          /\ requests[i].stage = "headers"
          /\ Becomes(onCompleted(State,
                       [requestId |-> requests[i].requestId, url |-> requests[i].url,
                        timeStamp |-> now, statusCode |-> "200",
                        statusLine |-> "HTTP/1.1 200"]))
    /\ counters' = [counters EXCEPT !.events = @ + 1]
    /\ UNCHANGED rb

OnErrorOccurred ==
    /\ counters.events < MaxEvents
    /\ \E i \in 1..Len(requests) :
          /\ requests[i].stage = "headers"
          /\ Becomes(onErrorOccurred(State,
                       [requestId |-> requests[i].requestId, url |-> requests[i].url,
                        error |-> "net::ERR_FAILED"]))
    /\ counters' = [counters EXCEPT !.events = @ + 1]
    /\ UNCHANGED rb

Next ==
    \/ Tick
    \/ SetSettings
    \/ StartSession
    \/ SetUatConfig
    \/ CapturedPayload
    \/ PageContext
    \/ CapturedWebsdk
    \/ OnBeforeRequest
    \/ OnBeforeSendHeaders
    \/ OnCompleted
    \/ OnErrorOccurred

Spec == Init /\ [][Next]_vars

-----------------------------------------------------------------------------
(* The replacement rule on its own: a record body that is offered two      *)
(* candidates, one after the other.                                        *)

RbInit ==
    rb \in { [phase |-> "start", first |-> b, c1 |-> Null, c2 |-> Null,
              prev |-> Null, incoming |-> Null, body |-> b, decision |-> FALSE] :
              b \in BodiesOrNull }

OfferFirst ==
    /\ rb.phase = "start"
    /\ \E c \in BodiesOrNull :
          rb' = [rb EXCEPT !.phase = "one", !.c1 = c, !.prev = rb.body,
                           !.incoming = c, !.body = Offer(rb.body, c),
                           !.decision = shouldReplaceBody(rb.body, c)]
    /\ UNCHANGED progVars

OfferSecond ==
    /\ rb.phase = "one"
    /\ \E c \in BodiesOrNull :
          rb' = [rb EXCEPT !.phase = "two", !.c2 = c, !.prev = rb.body,
                           !.incoming = c, !.body = Offer(rb.body, c),
                           !.decision = shouldReplaceBody(rb.body, c)]
    /\ UNCHANGED progVars

InitReplace ==
    /\ RbInit
    /\ now = T0
    /\ settings = [allowlist |-> {"edge.adobedc.net"}, capturePaused |-> FALSE,
                   maxEntries |-> DEFAULT_MAX_ENTRIES, selectedSessionId |-> NullId,
                   enableHooks |-> FALSE, debugHooks |-> FALSE,
                   serviceMappings |-> <<>>]
    /\ sessions = <<>>
    /\ currentSessionId = NullId
    /\ uatConfigs = [site \in {SiteA} |-> Null]
    /\ navState = [t \in Tabs |-> Null]
    /\ tabUrlCache = [t \in Tabs |-> ""]
    /\ requests = <<>>
    /\ requestIndex = <<>>
    /\ payloadCache = [k \in UrlRequestIds |-> Null]
    /\ payloadCacheByUrlTab = [t \in Tabs |-> <<>>]
    /\ hookQueueByTabUrl = [k \in Tabs \X Urls |-> <<>>]
    /\ hookQueueByUrl = [u \in Urls |-> <<>>]
    /\ lastRequestAt = T0
    /\ idlePrompted = FALSE
    /\ last = Fresh
    /\ counters = [messages |-> 0, requests |-> 0, ticks |-> 0, events |-> 0,
                   navs |-> 0, loading |-> [t \in Tabs |-> ""],
                   sessions |-> 0, ops |-> 0, deleted |-> {}, extends |-> 0,
                   atPrompt |-> <<>>, stopped |-> NullId, stoppedAt |-> 0]

NextReplace == OfferFirst \/ OfferSecond

SpecReplace == InitReplace /\ [][NextReplace]_vars

-----------------------------------------------------------------------------
(* The body decoder on its own: a request body and a content type, decoded *)
(* by the decoder of either background script.                             *)

RawInputs ==
    { [formData |-> f, len |-> n, json |-> j, evs |-> "truthy", params |-> "absent",
       other |-> TRUE, purl |-> "", x |-> "1", formLike |-> l] :
        f \in {"absent", "fields", "nofields"},
        n \in {0, 10, MAX_BODY_CHARS, MAX_BODY_CHARS + 1},
        j \in {"invalid", "falsy", "scalar", "object"},
        l \in BOOLEAN }

ContentTypes == {"", "application/json", "application/x-www-form-urlencoded"}

\* the program's variables as in InitReplace, nothing recorded
InitDecode ==
    /\ InitReplace!2 /\ InitReplace!3 /\ InitReplace!4 /\ InitReplace!5
    /\ InitReplace!6 /\ InitReplace!7 /\ InitReplace!8 /\ InitReplace!9
    /\ InitReplace!10 /\ InitReplace!11 /\ InitReplace!12 /\ InitReplace!13
    /\ InitReplace!14 /\ InitReplace!15 /\ InitReplace!16 /\ InitReplace!17
    /\ InitReplace!18
    /\ rb \in { [phase |-> "raw", requestBody |-> b, contentType |-> ct,
                  by |-> "", body |-> Null] :
                  b \in RawInputs, ct \in ContentTypes }

\* parseRawBody of lib/parse.js, which the module background script imports
DecodeModule ==
    /\ rb.phase = "raw"
    /\ rb' = [rb EXCEPT !.phase = "decoded", !.by = "module",
                        !.body = parseRawBody(rb.requestBody, rb.contentType)]
    /\ UNCHANGED progVars

\* parseRawBody of the background script that carries its own decoder
DecodeInline ==
    /\ rb.phase = "raw"
    /\ rb' = [rb EXCEPT !.phase = "decoded", !.by = "inline",
                        !.body = parseRawBodyInline(rb.requestBody, rb.contentType)]
    /\ UNCHANGED progVars

NextDecode == DecodeModule \/ DecodeInline

SpecDecode == InitDecode /\ [][NextDecode]_vars

-----------------------------------------------------------------------------
(* The path resolver on its own.  A path is the sequence of its            *)
(* characters.  A JSON value is [num |-> n], [items |-> sequence] for an   *)
(* array, [fields |-> function from keys to values] for an object, or      *)
(* Undefined; a key is the sequence of its characters.                     *)

Undefined == [undefined |-> TRUE]
Num(n) == [num |-> n]
Arr(items) == [items |-> items]
Obj(fields) == [fields |-> fields]

\* the length of the separator that starts at position i: "." for the
\* segments, /\[|\]/ for the parts of a segment in lib/uat.js, and the
\* pattern of the background script that carries its own resolver, a
\* backslash followed by "|" or a backslash
SepLen(seq, i, kind) ==
    CASE kind = "dot" -> IF seq[i] = "." THEN 1 ELSE 0
      [] kind = "brackets" -> IF seq[i] \in {"[", "]"} THEN 1 ELSE 0
      [] kind = "backslashes" ->
             IF seq[i] = "\\" /\ i < Len(seq) /\ seq[i + 1] \in {"|", "\\"}
             THEN 2 ELSE 0

\* String.prototype.split: the pieces between the separators, empty ones
\* included
RECURSIVE SplitRest(_, _, _, _)
SplitRest(seq, i, piece, kind) ==
    IF i > Len(seq) THEN <<piece>>
    ELSE IF SepLen(seq, i, kind) > 0
         THEN <<piece>> \o SplitRest(seq, i + SepLen(seq, i, kind), <<>>, kind)
         ELSE SplitRest(seq, i + 1, Append(piece, seq[i]), kind)

Split(seq, kind) == SplitRest(seq, 1, <<>>, kind)

DigitChars == <<"0", "1", "2", "3", "4", "5", "6", "7", "8", "9">>

\* Number(part) is a number and part is not blank, for parts of decimal
\* digits; every other part of the modelled paths is no number
IsIndex(part) ==
    /\ Len(part) > 0
    /\ \A k \in 1..Len(part) : \E d \in 1..10 : DigitChars[d] = part[k]

RECURSIVE NumberOf(_, _)
NumberOf(part, k) ==
    IF k = 0 THEN 0
    ELSE 10 * NumberOf(part, k - 1)
         + (CHOOSE d \in 0..9 : DigitChars[d + 1] = part[k])

\* the tokens of the parts of one segment: [index |-> n] or [key |-> part]
RECURSIVE TokensOf(_, _)
TokensOf(parts, k) ==
    IF k > Len(parts) THEN <<>>
    ELSE IF parts[k] = <<>> THEN TokensOf(parts, k + 1)
    ELSE <<IF IsIndex(parts[k]) THEN [index |-> NumberOf(parts[k], Len(parts[k]))]
                                ELSE [key |-> parts[k]]>>
         \o TokensOf(parts, k + 1)

RECURSIVE ParseSegments(_, _, _)
ParseSegments(segments, k, kind) ==
    IF k > Len(segments) THEN <<>>
    ELSE TokensOf(Split(segments[k], kind), 1) \o ParseSegments(segments, k + 1, kind)

parsePath(path) == ParseSegments(Split(path, "dot"), 1, "brackets")

\* parsePath of the background script that carries its own resolver
parsePathInline(path) == ParseSegments(Split(path, "dot"), 1, "backslashes")

\* current[token], after the check that an index meets an array
Lookup(current, token) ==
    IF "index" \in DOMAIN token
    THEN IF "items" \notin DOMAIN current THEN Undefined
         ELSE IF token.index + 1 \in 1..Len(current.items)
              THEN current.items[token.index + 1] ELSE Undefined
    ELSE IF "fields" \in DOMAIN current /\ token.key \in DOMAIN current.fields
         THEN current.fields[token.key] ELSE Undefined

RECURSIVE ValueAt(_, _, _)
ValueAt(current, tokens, k) ==
    IF k > Len(tokens) THEN current
    ELSE IF current = Undefined THEN Undefined
    ELSE ValueAt(Lookup(current, tokens[k]), tokens, k + 1)

getValueAtPath(obj, path) ==
    IF path = <<>> THEN obj ELSE ValueAt(obj, parsePath(path), 1)

\* getValueAtPath of the background script that carries its own resolver
getValueAtPathInline(obj, path) ==
    IF path = <<>> THEN obj ELSE ValueAt(obj, parsePathInline(path), 1)

\* {a: {b: [{c: 1}, {c: 2}]}}, {a: {b: {c: 1}}}, {a: {b: {"0": {c: 7}}}}
\* and {a: 5}
DocList == Obj(<<"a">> :> Obj(<<"b">> :>
               Arr(<<Obj(<<"c">> :> Num(1)), Obj(<<"c">> :> Num(2))>>)))
DocObject == Obj(<<"a">> :> Obj(<<"b">> :> Obj(<<"c">> :> Num(1))))
DocKeyed == Obj(<<"a">> :> Obj(<<"b">> :> Obj(<<"0">> :> Obj(<<"c">> :> Num(7)))))
DocNumber == Obj(<<"a">> :> Num(5))
Docs == {DocList, DocObject, DocKeyed, DocNumber}

\* a.b[n].c, a.b[n] and a[n]
PathIn(n) == <<"a", ".", "b", "[", n, "]", ".", "c">>
PathTo(n) == <<"a", ".", "b", "[", n, "]">>
PathAt(n) == <<"a", "[", n, "]">>
Paths ==
    {PathIn(n) : n \in {"0", "1", "5"}} \cup {PathTo(n) : n \in {"0", "1", "5"}}
    \cup {PathAt("0"), <<>>, <<"a">>, <<"a", ".", "b">>,
          <<"a", ".", "b", ".", "c">>, <<"b">>}

InitPaths ==
    /\ InitReplace!2 /\ InitReplace!3 /\ InitReplace!4 /\ InitReplace!5
    /\ InitReplace!6 /\ InitReplace!7 /\ InitReplace!8 /\ InitReplace!9
    /\ InitReplace!10 /\ InitReplace!11 /\ InitReplace!12 /\ InitReplace!13
    /\ InitReplace!14 /\ InitReplace!15 /\ InitReplace!16 /\ InitReplace!17
    /\ InitReplace!18
    /\ rb \in { [phase |-> "path", obj |-> d, path |-> q, by |-> "",
                  value |-> Undefined] : d \in Docs, q \in Paths }

\* getValueAtPath of lib/uat.js
ResolveModule ==
    /\ rb.phase = "path"
    /\ rb' = [rb EXCEPT !.phase = "resolved", !.by = "module",
                        !.value = getValueAtPath(rb.obj, rb.path)]
    /\ UNCHANGED progVars

ResolveInline ==
    /\ rb.phase = "path"
    /\ rb' = [rb EXCEPT !.phase = "resolved", !.by = "inline",
                        !.value = getValueAtPathInline(rb.obj, rb.path)]
    /\ UNCHANGED progVars

NextPaths == ResolveModule \/ ResolveInline

SpecPaths == InitPaths /\ [][NextPaths]_vars

-----------------------------------------------------------------------------
(* The condition evaluator on its own, over every operator, a range of     *)
(* expected values and every list of at most MaxValues values.             *)

MaxValues == 2

Operators ==
    {"", "exists", "not_exists", "equals", "contains", "starts_with",
     "ends_with", "regex", "in", "not_in", "gt", "gte", "lt", "lte", "range",
     "matches"}

ExpectedTexts == {[t |-> "str", v |-> e] : e \in {"", "1", "2", "c1", "("}}
ExpectedLists ==
    {[t |-> "list", v |-> l] : l \in {<<>>, <<"1">>, <<"1", "2">>, <<"2", "c1">>}}

ValueLists == UNION { [1..n -> {"", "1", "2", "c1"}] : n \in 0..MaxValues }

InitConditions ==
    /\ InitReplace!2 /\ InitReplace!3 /\ InitReplace!4 /\ InitReplace!5
    /\ InitReplace!6 /\ InitReplace!7 /\ InitReplace!8 /\ InitReplace!9
    /\ InitReplace!10 /\ InitReplace!11 /\ InitReplace!12 /\ InitReplace!13
    /\ InitReplace!14 /\ InitReplace!15 /\ InitReplace!16 /\ InitReplace!17
    /\ InitReplace!18
    /\ \E o \in Operators, l \in ValueLists :
          \E e \in {"text", "list", "undefined"} :
             \E expected \in CASE e = "text" -> ExpectedTexts
                                [] e = "list" -> ExpectedLists
                                [] OTHER -> {[t |-> "undefined"]} :
                rb = [phase |-> "condition",
                      condition |-> [source |-> "payload", path |-> "x",
                                     operator |-> o, expected |-> expected],
                      values |-> l, passed |-> FALSE]

Evaluate ==
    /\ rb.phase = "condition"
    /\ rb' = [rb EXCEPT !.phase = "evaluated",
                        !.passed = evaluateCondition(rb.condition, rb.values)]
    /\ UNCHANGED progVars

NextConditions == Evaluate

SpecConditions == InitConditions /\ [][NextConditions]_vars

-----------------------------------------------------------------------------
(* Page views: navigation events, sessions, UAT configuration and the      *)
(* requests of the pages.                                                  *)

Frames == {0, 1}              \* the top frame and a sub-frame

NavDetails ==
    { [tabId |-> t, frameId |-> f, url |-> u, timeStamp |-> now] :
        t \in Tabs, f \in Frames, u \in Pages }

\* counters.loading[t] is the URL of the document that tab t has committed
\* and not finished loading: the browser sends the completed event of a top
\* frame for that document only.
OnNavCommitted ==
    /\ counters.navs < MaxNavs
    /\ \E d \in NavDetails :
          /\ Becomes(onNavCommitted(State, d))
          /\ counters' = [counters EXCEPT
                            !.navs = @ + 1,
                            !.loading[d.tabId] = IF d.frameId = 0 THEN d.url ELSE @]
    /\ UNCHANGED rb

OnNavCompleted ==
    /\ counters.navs < MaxNavs
    /\ \E d \in NavDetails :
          /\ d.frameId = 0 => d.url = counters.loading[d.tabId]
          /\ Becomes(onNavCompleted(State, d))
          /\ counters' = [counters EXCEPT
                            !.navs = @ + 1,
                            !.loading[d.tabId] = IF d.frameId = 0 THEN "" ELSE @]
    /\ UNCHANGED rb

OnHistoryStateUpdated ==
    /\ counters.navs < MaxNavs
    /\ \E d \in NavDetails : Becomes(onHistoryStateUpdated(State, d))
    /\ counters' = [counters EXCEPT !.navs = @ + 1]
    /\ UNCHANGED rb

\* a request of a page to the collection endpoint
PageRequest ==
    /\ counters.requests < MaxRequests
    /\ counters.messages + counters.requests < MaxInputs
    /\ \E t \in Tabs :
          Becomes(onBeforeRequest(State, PlainRequest(counters.requests + 1, t, U_col)))
    /\ counters' = [counters EXCEPT !.requests = @ + 1]
    /\ UNCHANGED rb

\* a request the browser redirects: onBeforeRequest fires again with the
\* same requestId
RedirectedRequest ==
    /\ counters.requests < MaxRequests
    /\ counters.messages + counters.requests < MaxInputs
    /\ \E i \in 1..Len(requests) :
          /\ MapGet(requestIndex, requests[i].requestId) = i
          /\ requests[i].stage \in {"started", "headers"}
          /\ Becomes(onBeforeRequest(State,
                    PlainRequest(requests[i].requestId, requests[i].tabId, U_col)))
    /\ counters' = [counters EXCEPT !.requests = @ + 1]
    /\ UNCHANGED rb

NextPages ==
    \/ StartSession
    \/ SetUatConfig
    \/ OnNavCommitted
    \/ OnNavCompleted
    \/ OnHistoryStateUpdated
    \/ PageRequest
    \/ RedirectedRequest
    \/ OnBeforeSendHeaders
    \/ OnCompleted
    \/ OnErrorOccurred

SpecPages == Init /\ [][NextPages]_vars

-----------------------------------------------------------------------------
(* UAT evaluation: a session, one imported configuration and the records   *)
(* of up to MaxRecords requests.                                           *)

XEquals(v) ==
    [source |-> "", path |-> "x", operator |-> "equals",
     expected |-> [t |-> "str", v |-> v]]

UatGlobals ==
    { Null,
      [includeServices |-> {"adobe-edge"}, excludeServices |-> {},
       includeConditions |-> <<>>, excludeConditions |-> <<>>],
      [includeServices |-> {"adobe-target"}, excludeServices |-> {},
       includeConditions |-> <<>>, excludeConditions |-> <<>>],
      [includeServices |-> {}, excludeServices |-> {"adobe-edge"},
       includeConditions |-> <<>>, excludeConditions |-> <<>>],
      [includeServices |-> {}, excludeServices |-> {},
       includeConditions |-> <<XEquals("1")>>, excludeConditions |-> <<>>],
      [includeServices |-> {}, excludeServices |-> {},
       includeConditions |-> <<>>, excludeConditions |-> <<XEquals("1")>>] }

\* the expected values of a count: a number, a text that is no number, null
\* and a missing value
CountValues ==
    { [t |-> "num", n |-> 2], [t |-> "nan"], [t |-> "null"], [t |-> "undefined"] }

\* counts of the records with x = 1, and counts of the records with x = 1
\* among those whose request headers carry a content type
PageAssertions ==
    { [id |-> "per-page", conditionsLogic |-> "", conditions |-> <<>>,
       validations |-> <<XEquals("1")>>, scope |-> "page", count |-> c,
       value |-> v] :
        c \in {"exactly", "at_least", "at_most"}, v \in CountValues }
    \cup
    { [id |-> "per-page-sent", conditionsLogic |-> "any",
       conditions |-> <<[source |-> "headers", path |-> "content-type",
                         operator |-> "exists", expected |-> [t |-> "undefined"]]>>,
       validations |-> <<XEquals("1")>>, scope |-> "page", count |-> c,
       value |-> [t |-> "num", n |-> 1]] :
        c \in {"exactly", "at_least", "at_most"} }

RequestAssertion ==
    [id |-> "x-is-1", conditionsLogic |-> "", conditions |-> <<>>,
     validations |-> <<XEquals("1")>>, scope |-> "", count |-> "",
     value |-> [t |-> "undefined"]]

\* an assertion that applies to the records with x = 2 only
ConditionalAssertion ==
    [id |-> "when-x-is-2", conditionsLogic |-> "any",
     conditions |-> <<XEquals("2")>>,
     validations |-> <<[source |-> "", path |-> "x", operator |-> "exists",
                        expected |-> [t |-> "undefined"]]>>,
     scope |-> "", count |-> "", value |-> [t |-> "undefined"]]

\* assertions with two conditions and two validations, under either logic:
\* x = 2 and request headers that carry a content type
LogicAssertions ==
    LET Sent == [source |-> "headers", path |-> "content-type",
                 operator |-> "exists", expected |-> [t |-> "undefined"]]
    IN  { [id |-> "sent-with-x-2", conditionsLogic |-> l,
           conditions |-> <<XEquals("2"), Sent>>,
           validations |-> <<Sent, XEquals("2")>>,
           scope |-> "", count |-> "", value |-> [t |-> "undefined"]] :
            l \in {"all", "any"} }

\* every gate with one list of assertions, and every list of assertions
\* without a gate
UatRawConfigs ==
    { [global |-> g, assertions |-> <<ConditionalAssertion, RequestAssertion>>] :
        g \in UatGlobals }
    \cup
    { [global |-> Null, assertions |-> a] :
        a \in {<<>>} \cup { <<x>> : x \in PageAssertions \cup LogicAssertions }
                     \cup { <<ConditionalAssertion, x>> : x \in PageAssertions } }

UatBodies ==
    { [formData |-> "absent", len |-> 10, json |-> "object",
       evs |-> "truthy", params |-> "absent", other |-> TRUE, purl |-> "",
       x |-> v, formLike |-> FALSE] : v \in {"1", "2"} }

ImportUatConfig ==
    /\ uatConfigs[SiteA] = Null
    /\ \E c \in UatRawConfigs : Becomes(setUatConfig(State, SiteA, c))
    /\ UNCHANGED <<counters, rb>>

RecordRequest ==
    /\ counters.requests < MaxRecords
    /\ \E u \in Urls, body \in UatBodies \cup {Null} :
          Becomes(onBeforeRequest(State,
                    [PlainRequest(counters.requests + 1, "t1", u)
                        EXCEPT !.requestBody = body]))
    /\ counters' = [counters EXCEPT !.requests = @ + 1]
    /\ UNCHANGED rb

NextUat ==
    \/ StartSession
    \/ ImportUatConfig
    \/ RecordRequest
    \/ OnBeforeSendHeaders
    \/ OnCompleted

SpecUat == Init /\ [][NextUat]_vars

-----------------------------------------------------------------------------
(* Sessions: the messages of the session list, the idle dialog and the     *)
(* settings, the idle alarm, the closing of the UI tab and the requests of *)
(* the pages.                                                              *)

SessionMessages ==
    { [type |-> "startSession", site |-> SiteA, lockTabId |-> NoTab,
       uatEnabled |-> FALSE],
      [type |-> "setSettings",
       settings |-> [maxEntries |-> 1, enableHooks |-> TRUE]],
      [type |-> "idleExtend"],
      [type |-> "idleStop"] }
    \cup { [type |-> k, id |-> id] :
             k \in {"selectSession", "pauseSession", "deleteSession"},
             id \in 1..MaxOpened }

\* counters.stopped: the session stopped by idleStop or pauseSession, until a
\* session is started or an unpaused session is selected; counters.stoppedAt:
\* the requests seen when it was stopped
StoppedAfter(m) ==
    CASE m.type = "idleStop" /\ ActiveSessionId(State) # NullId ->
             ActiveSessionId(State)
      [] m.type = "pauseSession" /\ SessionById(State, m.id) # Null -> m.id
      [] m.type = "startSession" -> NullId
      [] m.type = "selectSession" /\ SessionById(State, m.id) # Null
            /\ ~SessionById(State, m.id).paused -> NullId
      [] OTHER -> counters.stopped

\* counters.deleted: the ids of the deleted sessions; counters.extends: the
\* idleExtend messages so far.  The closing of the UI tab (tabs.onRemoved
\* with no UI tab left) runs stopActiveSession as the idleStop message does.
\* The session list of the UI sends the ids of sessions that were created.
SessionMessage ==
    /\ \E m \in SessionMessages :
          /\ IF m.type = "startSession"
             THEN counters.sessions < MaxOpened
             ELSE counters.ops < MaxOps
          /\ m.type \in {"selectSession", "pauseSession", "deleteSession"}
                => m.id <= counters.sessions
          /\ Becomes(onMessage(State, m))
          /\ counters' =
                [counters EXCEPT
                   !.sessions = IF m.type = "startSession" THEN @ + 1 ELSE @,
                   !.ops = IF m.type = "startSession" THEN @ ELSE @ + 1,
                   !.extends = IF m.type = "idleExtend" THEN @ + 1 ELSE @,
                   !.deleted = IF m.type = "deleteSession" THEN @ \cup {m.id} ELSE @,
                   !.stopped = StoppedAfter(m),
                   !.stoppedAt = IF StoppedAfter(m) # counters.stopped
                                 THEN counters.requests ELSE @]
    /\ UNCHANGED rb

\* what counts as activity for the idle prompt: requests, sessions started
\* and idleExtend messages so far
Activity == <<counters.requests, counters.sessions, counters.extends>>

\* the idle-check alarm; counters.atPrompt: the activity at the last prompt
IdleCheck ==
    /\ counters.ops < MaxOps
    /\ Becomes(checkForIdleSession(State))
    /\ counters' = [counters EXCEPT
                      !.ops = @ + 1,
                      !.atPrompt = IF checkForIdleSession(State).idlePrompted
                                      /\ ~idlePrompted
                                   THEN Activity ELSE @]
    /\ UNCHANGED rb

\* time passes: just under the idle timeout, or the idle timeout
IdleWait ==
    /\ counters.ticks < MaxTicks
    /\ \E d \in {IDLE_TIMEOUT_MS - 1, IDLE_TIMEOUT_MS} :
          Becomes([State EXCEPT !.now = @ + d, !.last = Fresh])
    /\ counters' = [counters EXCEPT !.ticks = @ + 1]
    /\ UNCHANGED rb

NextSessions ==
    \/ SessionMessage
    \/ IdleCheck
    \/ IdleWait
    \/ PageRequest
    \/ OnBeforeSendHeaders
    \/ OnCompleted

SpecSessions == Init /\ [][NextSessions]_vars

\* The session messages and the requests of the page, with up to MaxStarted
\* sessions started.
MaxStarted == 3

LifecycleMessages ==
    { [type |-> "startSession", site |-> SiteA, lockTabId |-> NoTab,
       uatEnabled |-> FALSE],
      [type |-> "idleStop"] }
    \cup { [type |-> k, id |-> id] :
             k \in {"selectSession", "pauseSession", "deleteSession"},
             id \in 1..MaxStarted }

Lifecycle ==
    /\ \E m \in LifecycleMessages :
          /\ IF m.type = "startSession"
             THEN counters.sessions < MaxStarted
             ELSE counters.ops < MaxOps
          /\ m.type \in {"selectSession", "pauseSession", "deleteSession"}
                => m.id <= counters.sessions
          /\ Becomes(onMessage(State, m))
          /\ counters' =
                [counters EXCEPT
                   !.sessions = IF m.type = "startSession" THEN @ + 1 ELSE @,
                   !.ops = IF m.type = "startSession" THEN @ ELSE @ + 1,
                   !.deleted = IF m.type = "deleteSession" THEN @ \cup {m.id} ELSE @]
    /\ UNCHANGED rb

NextLifecycle ==
    \/ Lifecycle
    \/ PageRequest

SpecLifecycle == Init /\ [][NextLifecycle]_vars

-----------------------------------------------------------------------------
(* Closing tabs: pages are loaded and report payloads, and tabs are closed. *)

\* tabs.onRemoved; a key of hookQueueByTabUrl is the pair of tab and URL
onTabRemoved(s0, tabId) ==
    LET s == Begin(s0)
    IN  [s EXCEPT !.tabUrlCache[tabId] = "",
                  !.navState[tabId] = Null,
                  !.hookQueueByTabUrl =
                      [k \in DOMAIN @ |-> IF k[1] = tabId THEN <<>> ELSE @[k]]]

OnTabRemoved ==
    /\ counters.ops < MaxOps
    /\ \E t \in Tabs : Becomes(onTabRemoved(State, t))
    /\ counters' = [counters EXCEPT !.ops = @ + 1]
    /\ UNCHANGED rb

NextTabs ==
    \/ SetSettings
    \/ StartSession
    \/ OnNavCommitted
    \/ CapturedPayload
    \/ OnTabRemoved

SpecTabs == Init /\ [][NextTabs]_vars

-----------------------------------------------------------------------------
(* Loading the state.  rb holds what the program does not keep in memory:  *)
(* storage, the value of the last saveState (Null before the first);       *)
(* pending, the loads whose read of the storage has not been delivered     *)
(* yet, each with the value read (stored) and the requests, sessions and   *)
(* settings of the memory at the time of the read (at); finished, the      *)
(* loads delivered so far.                                                 *)

MaxLoads == 2      \* loads started

\* what saveState writes
Persisted(s) ==
    [settings |-> s.settings, requests |-> s.requests, sessions |-> s.sessions,
     currentSessionId |-> s.currentSessionId, uatConfigs |-> s.uatConfigs,
     lastRequestAt |-> s.lastRequestAt, idlePrompted |-> s.idlePrompted]

Memory(s) == <<s.requests, s.sessions, s.settings>>

\* the continuation of loadState after the read of the storage; a
\* configuration that was stored is a normalized one
loadState(s0, stored) ==
    LET s == Begin(s0)
        s1 == IF stored = Null THEN s
              ELSE [s EXCEPT !.settings = stored.settings,
                             !.requests = stored.requests,
                             !.requestIndex = IndexOf(stored.requests),
                             !.sessions = stored.sessions,
                             !.currentSessionId =
                                 IF stored.currentSessionId # NullId
                                 THEN stored.currentSessionId ELSE @,
                             !.uatConfigs = stored.uatConfigs,
                             !.lastRequestAt =
                                 IF stored.lastRequestAt # 0
                                 THEN stored.lastRequestAt ELSE @,
                             !.idlePrompted = stored.idlePrompted]
        s2 == IF s1.currentSessionId # NullId THEN s1
              ELSE [s1 EXCEPT !.currentSessionId =
                                 IF Len(s1.sessions) > 0 THEN s1.sessions[1].id
                                 ELSE NullId]
    IN  IF s2.settings.selectedSessionId # NullId THEN s2
        ELSE [s2 EXCEPT !.settings.selectedSessionId = s2.currentSessionId]

\* the memory of a background script that has just started
Constructed(s) ==
    [s EXCEPT !.settings = [allowlist |-> {"edge.adobedc.net"},
                            capturePaused |-> FALSE,
                            maxEntries |-> DEFAULT_MAX_ENTRIES,
                            selectedSessionId |-> NullId, enableHooks |-> FALSE,
                            debugHooks |-> FALSE, serviceMappings |-> <<>>],
              !.sessions = <<>>,
              !.currentSessionId = NullId,
              !.uatConfigs = [site \in {SiteA} |-> Null],
              !.navState = [t \in Tabs |-> Null],
              !.tabUrlCache = [t \in Tabs |-> ""],
              !.requests = <<>>,
              !.requestIndex = <<>>,
              !.payloadCache = [k \in UrlRequestIds |-> Null],
              !.payloadCacheByUrlTab = [t \in Tabs |-> <<>>],
              !.hookQueueByTabUrl = [k \in Tabs \X Urls |-> <<>>],
              !.hookQueueByUrl = [u \in Urls |-> <<>>],
              !.lastRequestAt = s.now,
              !.idlePrompted = FALSE,
              !.last = Fresh]

Reading(s) == [stored |-> rb.storage, at |-> Memory(s)]

InitLoad ==
    /\ InitReplace!2 /\ InitReplace!3 /\ InitReplace!4 /\ InitReplace!5
    /\ InitReplace!6 /\ InitReplace!7 /\ InitReplace!8 /\ InitReplace!9
    /\ InitReplace!10 /\ InitReplace!11 /\ InitReplace!12 /\ InitReplace!13
    /\ InitReplace!14 /\ InitReplace!15 /\ InitReplace!16 /\ InitReplace!17
    /\ InitReplace!18
    /\ rb = [phase |-> "worker", storage |-> Null, pending |-> <<>>,
             finished |-> 0]

\* the background script starts: its memory is as constructed, the loads of
\* the script that ran before are gone, and the last statements of the
\* module call loadState
WorkerStart ==
    /\ counters.ops < MaxLoads
    /\ Becomes(Constructed(State))
    /\ rb' = [rb EXCEPT !.pending = <<Reading(Constructed(State))>>]
    /\ counters' = [counters EXCEPT !.ops = @ + 1]

\* the onInstalled and onStartup listeners call loadState
ListenerLoad ==
    /\ counters.ops < MaxLoads
    /\ counters.ops > 0
    /\ Becomes(State)
    /\ rb' = [rb EXCEPT !.pending = Append(@, Reading(State))]
    /\ counters' = [counters EXCEPT !.ops = @ + 1]

\* the read of the storage is delivered and loadState goes on
FinishLoad ==
    /\ rb.pending # <<>>
    /\ Becomes(loadState(State, Head(rb.pending).stored))
    /\ rb' = [rb EXCEPT !.pending = Tail(@), !.finished = @ + 1]
    /\ UNCHANGED counters

\* handlers that run meanwhile and end with saveState
SavedStartSession ==
    /\ counters.sessions < MaxOpened
    /\ LET after == startSession(State, [site |-> SiteA, lockTabId |-> NoTab,
                                         uatEnabled |-> FALSE])
       IN  /\ Becomes(after)
           /\ rb' = [rb EXCEPT !.storage = Persisted(after)]
    /\ counters' = [counters EXCEPT !.sessions = @ + 1]

SavedRequest ==
    /\ counters.requests < MaxRequests
    /\ LET after == onBeforeRequest(State,
                                    PlainRequest(counters.requests + 1, "t1", U_col))
       IN  /\ Len(after.requests) > Len(requests)
           /\ Becomes(after)
           /\ rb' = [rb EXCEPT !.storage = Persisted(after)]
    /\ counters' = [counters EXCEPT !.requests = @ + 1]

NextLoad ==
    \/ WorkerStart
    \/ ListenerLoad
    \/ FinishLoad
    \/ SavedStartSession
    \/ SavedRequest

SpecLoad == InitLoad /\ [][NextLoad]_vars

-----------------------------------------------------------------------------
(* Properties.                                                             *)

\* a non-empty body with a top-level events, xdm, _experience or data value
EventLike(body) == body # Null /\ ~isBodyEmpty(body) /\ HasEvents(body)

\* C1: once a record's body has been a non-empty event-like body, every later
\* body of the record is non-empty and event-like, with raw text at least as
\* long.
C1_BodyNeverRegresses ==
    \A i \in 1..Len(requests) :
        \A a, b \in 1..Len(requests[i].hist) :
            (a < b /\ EventLike(requests[i].hist[a]))
                => /\ EventLike(requests[i].hist[b])
                   /\ RawLength(requests[i].hist[b]) >= RawLength(requests[i].hist[a])

\* C2: the body a record ends with is the same whichever of two candidates
\* is offered first.
C2_OrderIndependent ==
    rb.phase = "two" => rb.body = Offer(Offer(rb.first, rb.c2), rb.c1)

\* the rule as stated: "empty" is no parsed content or an empty object/array,
\* "has a key" is the presence of an events, xdm, _experience or data key
C3_StatedEmpty(body) ==
    body = Null \/ body.parsed = "none" \/ (body.parsed = "object" /\ NoKeys(body))
C3_StatedHasKey(body) ==
    body # Null /\ body.parsed = "object" /\ body.evs # "absent"
C3_StatedRule(existing, incoming) ==
    \/ C3_StatedEmpty(existing)
    \/ (~C3_StatedHasKey(existing) /\ C3_StatedHasKey(incoming))
    \/ (C3_StatedHasKey(existing) /\ C3_StatedHasKey(incoming)
        /\ RawLength(incoming) > RawLength(existing))

\* C3 as stated: the decision equals the three-case rule.
C3_AsStated ==
    rb.phase \in {"one", "two"} => (rb.decision <=> C3_StatedRule(rb.prev, rb.incoming))

\* the rule the decision follows: a body is vacant when it is missing, when
\* its parsed value is an object whose params array is empty or (without a
\* params array) which has no key, or when nothing was parsed and the raw
\* text is the empty string; a body carries events when its parsed value is
\* an object with a truthy events, xdm, _experience or data value
C3_Vacant(body) ==
    \/ body = Null
    \/ body # Null /\ body.parsed # "none" /\ body.params = "empty"
    \/ body # Null /\ body.parsed = "object" /\ body.params = "absent"
         /\ body.evs = "absent" /\ ~body.other
    \/ body # Null /\ body.parsed = "none" /\ body.rawLen = 0
C3_CarriesEvents(body) ==
    body # Null /\ body.parsed = "object" /\ body.evs = "truthy"
C3_RawLen(body) == IF body = Null \/ body.rawLen < 0 THEN 0 ELSE body.rawLen

\* C3: the candidate replaces the existing body exactly when there is a
\* candidate and either the existing body is vacant, or the candidate carries
\* events and the existing body carries none or has strictly shorter raw text.
C3_ReplacementRule ==
    rb.phase \in {"one", "two"} =>
        (rb.decision <=>
            /\ rb.incoming # Null
            /\ \/ C3_Vacant(rb.prev)
               \/ /\ C3_CarriesEvents(rb.incoming)
                  /\ \/ ~C3_CarriesEvents(rb.prev)
                     \/ C3_RawLen(rb.incoming) > C3_RawLen(rb.prev))

\* an unparsed body with raw text was kept against a candidate without
\* events and then replaced by a candidate with events
C3_Witness ==
    /\ rb.phase = "two"
    /\ rb.first # Null /\ rb.first.parsed = "none" /\ rb.first.rawLen > 0
    /\ rb.c1 # Null /\ ~C3_CarriesEvents(rb.c1) /\ rb.prev = rb.first
    /\ C3_CarriesEvents(rb.incoming)
    /\ rb.decision /\ rb.body = rb.c2

\* C4: the payload of one capturedPayload message is attached to at most one
\* existing record.
C4_OneRecordPerMessage ==
    \A i, j \in 1..Len(requests) :
        (i # j /\ requests[i].via = "attach" /\ requests[j].via = "attach")
            => requests[i].body.mid # requests[j].body.mid

\* C5: the payload of one hook message is pulled from the caches for at most
\* one newly created record.
C5_PulledAtMostOnce ==
    \A i, j \in 1..Len(requests) :
        i # j => requests[i].pulledMids \cap requests[j].pulledMids = {}

\* C6: a payload attached to an existing record has a hook timestamp within
\* the matching window of the record's timestamp.
C6_AttachedWithinWindow ==
    \A i \in 1..Len(requests) :
        requests[i].via = "attach"
            => Abs(requests[i].body.hts - requests[i].timeStamp) <= HOOK_WINDOW_MS

\* C7: no lookup, in any of the four caches, returns an entry that was
\* inserted more than the TTL before.
C7_ExpiredLookupMisses ==
    \A p \in last.pulled : p.age <= PAYLOAD_TTL_MS

\* a record was created while the request-id cache and both hook queues held
\* an entry for it older than the TTL, and each lookup missed
C7_Witness ==
    /\ {"payloadCache", "hookQueueByTabUrl", "hookQueueByUrl"} \subseteq last.expiredMiss
    /\ Len(requests) > 0
    /\ Last(requests).body = Null

\* C8: after a prune pass on a cache, the cache holds no expired entry under
\* any key.
C8_PruneRemovesAllExpired ==
    /\ "payloadCache" \in last.pruned =>
          \A k \in UrlRequestIds :
              payloadCache[k] # Null => ~Expired(State, payloadCache[k])
    /\ "payloadCacheByUrlTab" \in last.pruned =>
          \A t \in Tabs : \A i \in 1..Len(payloadCacheByUrlTab[t]) :
              ~Expired(State, payloadCacheByUrlTab[t][i])
    /\ "hookQueueByTabUrl" \in last.pruned =>
          \A k \in Tabs \X Urls : \A i \in 1..Len(hookQueueByTabUrl[k]) :
              ~Expired(State, hookQueueByTabUrl[k][i])
    /\ "hookQueueByUrl" \in last.pruned =>
          \A u \in Urls : \A i \in 1..Len(hookQueueByUrl[u]) :
              ~Expired(State, hookQueueByUrl[u][i])

\* the bodies of the records of a state, oldest first
BodiesOf(s) == [i \in 1..Len(s.requests) |-> s.requests[i].body]

\* C9: handling a capturedPayload message twice leaves every record as
\* handling it once does, and the records created by the next two requests
\* get the same bodies.
C9_HandlingTwiceIsHandlingOnce ==
    \A t \in Tabs, u \in Urls : \A p \in HookPayloads(counters.messages + 1, now) :
        LET once == capturedPayload(State, HookMessage(u, p), t)
            twice == capturedPayload(once, HookMessage(u, p), t)
        IN  /\ twice.requests = once.requests
            /\ \A t1 \in Tabs, t2 \in Tabs :
                  LET d1 == PlainRequest(counters.requests + 1, t1, u)
                      d2 == PlainRequest(counters.requests + 2, t2, u)
                  IN  BodiesOf(onBeforeRequest(onBeforeRequest(twice, d1), d2))
                        = BodiesOf(onBeforeRequest(onBeforeRequest(once, d1), d2))

\* the stored fields of a record that the UAT result depends on
Fields(r) ==
    <<r.requestHeaders, r.body, r.statusCode, r.statusLine, r.pageUrl>>

\* C10: a step that changes the headers, body, status or page URL of a stored
\* record leaves the record with the UAT result the engine computes from the
\* state after the step.
C10_UatFollowsEveryChange ==
    [][\A i \in 1..Len(requests) :
          (/\ i <= Len(requests')
           /\ requests'[i].requestId = requests[i].requestId
           /\ Fields(requests'[i]) # Fields(requests[i]))
              => requests'[i].uat = UatFor(State', requests'[i])]_vars

\* the network request of record i has completed or failed
Completed(i) ==
    \E j \in 1..Len(requests) :
        /\ requests[j].requestId = requests[i].requestId
        /\ requests[j].stage = "done"

\* C11: a record that was stamped pending is no longer pending once its
\* network request has completed or failed: its UAT status is then done or
\* not-applicable.
C11_PendingResolvedOnCompletion ==
    \A i \in 1..Len(requests) :
        (Completed(i) /\ requests[i].uat # Null)
            => requests[i].uat.status \in {"done", "not-applicable"}

\* C12: evaluating a record again, with the record, its session, the
\* configuration and the other records unchanged, stores the same uat value.
C12_ReevaluationIsStable ==
    \A i \in 1..Len(requests) :
        LET once == evaluateUatForRequest(State, i)
        IN  evaluateUatForRequest(once, i).requests[i].uat = once.requests[i].uat

\* a record was evaluated to done with a failed page-scoped count
C12_Witness ==
    \E i \in 1..Len(requests) :
        /\ requests[i].stage = "done"
        /\ requests[i].uat # Null
        /\ requests[i].uat.status = "done"
        /\ \E k \in 1..Len(requests[i].uat.results) :
              /\ requests[i].uat.results[k].scope = "page"
              /\ requests[i].uat.results[k].status = "failed"

\* the session of record i, the configuration of the session's site, and the
\* reasons for which the engine has no result for the record
SessionOf(i) == SessionById(State, requests[i].sessionId)
UatEnabledFor(i) == SessionOf(i) # Null /\ SessionOf(i).uatEnabled
ConfigOf(i) == uatConfigs[SessionOf(i).site]
GatedOut(i) ==
    ~evaluateGlobalGate(requests[i], ConfigOf(i).global, requests[i].serviceId)
NoResults(i) ==
    \/ ~UatEnabledFor(i)
    \/ ConfigOf(i) = Null
    \/ Len(ConfigOf(i).assertions) = 0
    \/ GatedOut(i)

\* the uat value an evaluation of record i stores
Evaluated(i) == evaluateUatForRequest(State, i).requests[i].uat

\* C13 as stated: an evaluation leaves status not-applicable when there are no
\* results (UAT not enabled, no configuration, gated out), done otherwise.
C13_AsStated ==
    \A i \in 1..Len(requests) :
        /\ Evaluated(i) # Null
        /\ Evaluated(i).status = IF NoResults(i) THEN "not-applicable" ELSE "done"

\* C13: an evaluation stores no uat value at all when the record's session is
\* missing or UAT is not enabled for it; otherwise the status is
\* not-applicable when the engine has no results (no configuration for the
\* site, no assertion, or the record gated out) and done otherwise.
C13_StatusFollowsResults ==
    \A i \in 1..Len(requests) :
        IF ~UatEnabledFor(i) THEN Evaluated(i) = Null
        ELSE /\ Evaluated(i) # Null
             /\ Evaluated(i).status = IF NoResults(i) THEN "not-applicable" ELSE "done"
             /\ (Evaluated(i).results = <<>>) <=> NoResults(i)

\* a completed record of a UAT session was gated out of a configuration that
\* has assertions and is not-applicable, and another record is done
C13_Witness ==
    \E i, j \in 1..Len(requests) :
        /\ requests[i].stage = "done"
        /\ UatEnabledFor(i) /\ ConfigOf(i) # Null
        /\ Len(ConfigOf(i).assertions) > 0 /\ GatedOut(i)
        /\ requests[i].uat = [status |-> "not-applicable", results |-> <<>>]
        /\ requests[j].uat # Null /\ requests[j].uat.status = "done"

\* records i and j were created in the same tab during the same page view:
\* the tab's navId counts the page views (C16), 0 before the first
SamePageView(i, j) ==
    /\ requests[i].tabId = requests[j].tabId
    /\ requests[i].navId = requests[j].navId
    /\ requests[i].navId # 0

\* C14: the records created in one tab during one page view carry the same
\* pageUrl and the same navId.
C14_OneKeyPerPageView ==
    \A i, j \in 1..Len(requests) :
        SamePageView(i, j) => requests[i].pageUrl = requests[j].pageUrl

\* records i and j of one session count as siblings: countAssertionMatches
\* finds the same page key, made of a page URL and a navId, for both
Siblings(i, j) ==
    /\ requests[i].sessionId = requests[j].sessionId
    /\ PageKey(requests[i]) = PageKey(requests[j])
    /\ requests[i].pageUrl # "" /\ requests[i].navId # 0

\* C15: two records that share the cohort key (pageUrl, navId) were observed
\* in the same tab.
C15_SiblingsShareTab ==
    \A i, j \in 1..Len(requests) :
        Siblings(i, j) => requests[i].tabId = requests[j].tabId

\* the navId of a tab in a state
NavIdOf(s, tabId) == NavOf(s, tabId).navId

C17_PendingUrlPromotedOnCompleted ==
    \A d \in NavDetails :
        d.frameId = 0 =>
            LET before == NavOf(State, d.tabId)
                committed == NavOf(onNavCommitted(State, d), d.tabId)
                completed == NavOf(onNavCompleted(State, d), d.tabId)
            IN  /\ committed.pageUrl = before.pageUrl
                /\ committed.pendingUrl = d.url
                /\ completed.pageUrl =
                      (IF before.pendingUrl # "" THEN before.pendingUrl ELSE d.url)
                /\ completed.pendingUrl = ""
                /\ completed.pendingAt = 0

\* tab t1 shows page A and has committed page B
C17_Witness ==
    /\ navState["t1"] # Null
    /\ navState["t1"].pageUrl = PageA
    /\ navState["t1"].pendingUrl = PageB
    /\ navState["t1"].navId = 2

\* the assertions of the configuration that applies to record i
AssertionsOf(i) ==
    IF UatEnabledFor(i) /\ ConfigOf(i) # Null THEN ConfigOf(i).assertions ELSE <<>>

\* record r satisfies the conditions of an assertion under its logic
MeetsConditions(assertion, r) ==
    \/ Len(assertion.conditions) = 0
    \/ /\ assertion.conditionsLogic = "any"
       /\ \E c \in 1..Len(assertion.conditions) : Passes(assertion.conditions[c], r)
    \/ /\ assertion.conditionsLogic # "any"
       /\ \A c \in 1..Len(assertion.conditions) : Passes(assertion.conditions[c], r)

MeetsValidations(assertion, r) ==
    \A v \in 1..Len(assertion.validations) : Passes(assertion.validations[v], r)

\* the records of record i's session and page view that satisfy the
\* conditions and the validations of an assertion
Cohort(assertion, i) ==
    {j \in 1..Len(requests) :
        /\ requests[j].sessionId = requests[i].sessionId
        /\ PageKey(requests[j]) = PageKey(requests[i])
        /\ MeetsConditions(assertion, requests[j])
        /\ MeetsValidations(assertion, requests[j])}

\* the count compares true against the expected value under the mode; a
\* value that is no finite number never does
CountHolds(assertion, n) ==
    /\ assertion.value.t = "num"
    /\ CASE assertion.count = "at_least" -> n >= assertion.value.n
         [] assertion.count = "at_most" -> n <= assertion.value.n
         [] OTHER -> n = assertion.value.n

\* a page-scope assertion as the configuration format declares it: a count
\* mode and a value that is a number (NaN included)
PageScoped(assertion) ==
    /\ assertion.scope = "page"
    /\ assertion.count \in {"exactly", "at_least", "at_most"}
    /\ assertion.value.t \in {"num", "nan"}

\* the result of the k-th assertion for record i
ResultOf(i, k) ==
    AssertionResult(AssertionsOf(i)[k], requests[i],
                    SelectSeq(requests, LAMBDA r : r.sessionId = requests[i].sessionId))

\* C18: a page-scope assertion that applies to a record passes exactly when
\* the number of records of the record's cohort that satisfy the assertion's
\* conditions and all its validations compares true against value under the
\* count mode, whatever the record's own validations give.
C18_PageScopePassesOnCount ==
    \A i \in 1..Len(requests) : \A k \in 1..Len(AssertionsOf(i)) :
        LET assertion == AssertionsOf(i)[k]
        IN  (PageScoped(assertion) /\ MeetsConditions(assertion, requests[i]))
                => /\ ResultOf(i, k).status \in {"passed", "failed"}
                   /\ ResultOf(i, k).status = "passed"
                        <=> CountHolds(assertion, Cardinality(Cohort(assertion, i)))

\* three records share a page key and two of them have x = 1; the third,
\* with x = 2, was evaluated against "exactly 2 records with x = 1" and passed
C18_Witness ==
    /\ Len(requests) = 3
    /\ \E i \in 1..3 :
          /\ ~Passes(XEquals("1"), requests[i])
          /\ \A j \in 1..3 : PageKey(requests[j]) = PageKey(requests[i])
          /\ \A j \in (1..3) \ {i} : Passes(XEquals("1"), requests[j])
          /\ requests[i].uat # Null
          /\ requests[i].uat.status = "done"
          /\ \E k \in 1..Len(requests[i].uat.results) :
                /\ requests[i].uat.results[k].scope = "page"
                /\ requests[i].uat.results[k].status = "passed"
                /\ requests[i].uat.results[k].count.count = "exactly"
                /\ requests[i].uat.results[k].count.actual = 2

\* C19: a page-scope assertion that applies to a record and whose value is no
\* finite number (no number, or missing) fails.
C19_NonFiniteValueFails ==
    \A i \in 1..Len(requests) : \A k \in 1..Len(AssertionsOf(i)) :
        LET assertion == AssertionsOf(i)[k]
        IN  (/\ assertion.scope = "page"
             /\ MeetsConditions(assertion, requests[i])
             /\ assertion.value.t \in {"nan", "undefined"})
                => ResultOf(i, k).status = "failed"

\* one of the four gates of the configuration rejects record i: its service
\* is not among the included ones, is among the excluded ones, an exclude
\* condition matches, or an include condition does not
GateFails(i) ==
    LET gate == ConfigOf(i).global
        service == requests[i].serviceId
    IN  \/ gate.includeServices # {} /\ service \notin gate.includeServices
        \/ service \in gate.excludeServices
        \/ \E c \in 1..Len(gate.excludeConditions) :
              Passes(gate.excludeConditions[c], requests[i])
        \/ \E c \in 1..Len(gate.includeConditions) :
              ~Passes(gate.includeConditions[c], requests[i])

\* what the engine returns for record i
EngineResults(i) ==
    evaluateAssertionsForRequest(requests[i], ConfigOf(i).assertions,
        SelectSeq(requests, LAMBDA r : r.sessionId = requests[i].sessionId),
        [global |-> ConfigOf(i).global, serviceId |-> requests[i].serviceId])

\* C20: the engine returns no result for a record that one of the global
\* gates rejects, and otherwise one result for each assertion of the
\* configuration, skipped ones included, in the order of the assertions.
C20_GateThenOneResultPerAssertion ==
    \A i \in 1..Len(requests) :
        (UatEnabledFor(i) /\ ConfigOf(i) # Null) =>
            IF GateFails(i) THEN EngineResults(i) = <<>>
            ELSE /\ Len(EngineResults(i)) = Len(ConfigOf(i).assertions)
                 /\ \A k \in 1..Len(EngineResults(i)) :
                       EngineResults(i)[k].id = ConfigOf(i).assertions[k].id

\* under a configuration that includes the records with x = 1 only, a record
\* with x = 2 was left without results and a record with x = 1 got two
\* results, the first of them skipped
C20_Witness ==
    \E i, j \in 1..Len(requests) :
        /\ UatEnabledFor(i) /\ ConfigOf(i) # Null
        /\ ConfigOf(i).global.includeConditions # <<>>
        /\ GateFails(i) /\ ~GateFails(j)
        /\ requests[i].uat = [status |-> "not-applicable", results |-> <<>>]
        /\ requests[j].uat # Null
        /\ Len(requests[j].uat.results) = 2
        /\ requests[j].uat.results[1].status = "skipped"

\* C21: an assertion applies to a record exactly when it has no condition,
\* or its logic is all and every condition passes, or its logic is any and
\* some condition passes; an assertion that does not apply gives a skipped
\* result without validations.
C21_ApplicableByConditions ==
    \A i \in 1..Len(requests) : \A k \in 1..Len(AssertionsOf(i)) :
        LET assertion == AssertionsOf(i)[k]
            n == Len(assertion.conditions)
            applies ==
                \/ n = 0
                \/ /\ assertion.conditionsLogic = "all"
                   /\ \A c \in 1..n : Passes(assertion.conditions[c], requests[i])
                \/ /\ assertion.conditionsLogic = "any"
                   /\ \E c \in 1..n : Passes(assertion.conditions[c], requests[i])
        IN  /\ ResultOf(i, k).applicable <=> applies
            /\ ResultOf(i, k).status = "skipped" <=> ~applies
            /\ ~applies => ResultOf(i, k).validations = <<>>

\* a record with x = 2 whose headers were not seen was evaluated: the
\* assertion with logic any applied to it
C21_Witness ==
    \E i \in 1..Len(requests) :
        /\ requests[i].stage = "started"
        /\ Passes(XEquals("2"), requests[i])
        /\ requests[i].uat # Null /\ requests[i].uat.status = "done"
        /\ requests[i].uat.results[1].id = "sent-with-x-2"
        /\ requests[i].uat.results[1].conditionsLogic = "any"
        /\ requests[i].uat.results[1].applicable

\* C22: a request-scope assertion that applies to a record passes exactly
\* when every one of its validations passes, whatever its logic; a record
\* without a body fails an equals validation on a payload path.
C22_RequestScopePassesOnAllValidations ==
    \A i \in 1..Len(requests) : \A k \in 1..Len(AssertionsOf(i)) :
        LET assertion == AssertionsOf(i)[k]
        IN  (assertion.scope # "page" /\ MeetsConditions(assertion, requests[i]))
                => /\ ResultOf(i, k).status \in {"passed", "failed"}
                   /\ ResultOf(i, k).status = "passed"
                        <=> MeetsValidations(assertion, requests[i])
                   /\ (/\ requests[i].body = Null
                       /\ \E v \in 1..Len(assertion.validations) :
                             /\ assertion.validations[v].source = "payload"
                             /\ assertion.validations[v].operator = "equals")
                        => ResultOf(i, k).status = "failed"

\* a record without a body was evaluated and failed "x equals 1", which a
\* record with x = 1 passed
C22_Witness ==
    \E i, j \in 1..Len(requests) :
        /\ requests[i].body = Null /\ requests[i].uat # Null
        /\ requests[j].body # Null /\ requests[j].uat # Null
        /\ \E k \in 1..Len(requests[i].uat.results) :
              /\ requests[i].uat.results[k].id = "x-is-1"
              /\ requests[i].uat.results[k].status = "failed"
        /\ \E k \in 1..Len(requests[j].uat.results) :
              /\ requests[j].uat.results[k].id = "x-is-1"
              /\ requests[j].uat.results[k].status = "passed"

\* C23: after every handler the record list holds at most settings.maxEntries
\* records.
C23_AtMostMaxEntries == Len(requests) <= settings.maxEntries

\* C24: after every handler each stored record is the record the index
\* returns for its requestId, and every entry of the index leads to a stored
\* record with that requestId.
C24_IndexMatchesRecords ==
    /\ \A i \in 1..Len(requests) :
          MapGet(requestIndex, requests[i].requestId) = i
    /\ \A id \in DOMAIN requestIndex :
          /\ requestIndex[id] \in 1..Len(requests)
          /\ requests[requestIndex[id]].requestId = id

\* C25: no stored record belongs to a deleted session, neither one that was
\* there when the session was deleted nor one created later, and the index
\* leads to no such record.
C25_NoRecordOfDeletedSession ==
    /\ \A i \in 1..Len(requests) : requests[i].sessionId \notin counters.deleted
    /\ \A id \in DOMAIN requestIndex :
          /\ requestIndex[id] \in 1..Len(requests)
          /\ requests[requestIndex[id]].sessionId \notin counters.deleted
    /\ \A d \in counters.deleted :
          /\ SessionById(State, d) = Null
          /\ \A t \in Tabs, u \in Urls :
                \A r \in 1..Len(onBeforeRequest(State,
                                    PlainRequest(counters.requests + 1, t, u)).requests) :
                    onBeforeRequest(State, PlainRequest(counters.requests + 1, t, u))
                        .requests[r].sessionId # d

\* a session was deleted, and of the two requests seen so far one record, of
\* the other session, is stored
C25_Witness ==
    /\ counters.deleted # {}
    /\ counters.requests = 2
    /\ Len(sessions) = 1
    /\ Len(requests) = 1
    /\ settings.maxEntries > 1

\* the caches of the page hooks and the records
HookState(s) ==
    <<s.requests, s.payloadCache, s.payloadCacheByUrlTab, s.hookQueueByTabUrl,
      s.hookQueueByUrl>>

HooksOpen ==
    /\ settings.enableHooks
    /\ ~settings.capturePaused
    /\ settings.selectedSessionId # NullId

\* C28 as stated: a hook message changes a cache or a record only if the
\* hooks are open and the URL it carries is on the allowlist; a
\* capturedWebsdk message carries no URL, so none is on the allowlist.
C28_AsStated ==
    \A t \in Tabs :
        /\ \A u \in Urls \cup {U_out} :
              ~(HooksOpen /\ isAllowed(State, u)) =>
                  /\ HookState(pageContext(State, HookMessage(u, Null), t))
                        = HookState(State)
                  /\ \A p \in HookPayloads(counters.messages + 1, now) :
                        HookState(capturedPayload(State, HookMessage(u, p), t))
                          = HookState(State)
        /\ \A p \in WebsdkPayloads(counters.messages + 1, now) :
              HookState(capturedWebsdk(State, HookMessage("", p), t))
                = HookState(State)

\* C28: a hook message changes a cache or a record only if the hooks are
\* open and the URL it carries, when it carries one, is on the allowlist; a
\* capturedWebsdk message carries none.
C28_GatedByFlagsAndAllowlist ==
    \A t \in Tabs :
        /\ \A u \in Urls \cup {U_out} :
              ~(HooksOpen /\ isAllowed(State, u)) =>
                  /\ HookState(pageContext(State, HookMessage(u, Null), t))
                        = HookState(State)
                  /\ \A p \in HookPayloads(counters.messages + 1, now) :
                        HookState(capturedPayload(State, HookMessage(u, p), t))
                          = HookState(State)
        /\ ~HooksOpen =>
              \A p \in WebsdkPayloads(counters.messages + 1, now) :
                  HookState(capturedWebsdk(State, HookMessage("", p), t))
                    = HookState(State)

\* the hooks are open and a record is stored: a message for the collection
\* endpoint would change the caches, one for a host off the allowlist is
\* dropped
C28_Witness ==
    /\ HooksOpen
    /\ Len(requests) > 0
    /\ ~isAllowed(State, U_out)
    /\ \E t \in Tabs :
          HookState(pageContext(State, HookMessage(U_col, Null), t)) # HookState(State)

\* C29: no config for which validateUatConfig reports an error is stored
\* in uatConfigs.
C29_InvalidConfigNeverStored ==
    \A c \in UatRawConfigs :
        validateUatConfig(c) # {} => uatConfigs[SiteA] # normalizeUatConfig(c)

\* the states after one more event that concerns record i: a hook message
\* from another page for its tab and URL, with a payload that names that
\* page, its headers, its completion
LaterEvents(i) ==
    LET r == requests[i]
        page == IF r.pageUrl = PageB THEN PageA ELSE PageB
        Hook(p) == [HookMessage(r.url, p) EXCEPT !.pageUrl = page]
        Naming(p) == [p EXCEPT !.purl = page]
    IN  {pageContext(State, Hook(Null), r.tabId),
         onCompleted(State,
            [requestId |-> r.requestId, url |-> r.url, timeStamp |-> now,
             statusCode |-> "200", statusLine |-> "HTTP/1.1 200"])}
        \cup {capturedPayload(State, Hook(Naming(p)), r.tabId) :
                 p \in HookPayloads(counters.messages + 1, now)}
        \cup {capturedWebsdk(State, [Hook(Naming(p)) EXCEPT !.url = ""], r.tabId) :
                 p \in WebsdkPayloads(counters.messages + 1, now)}
        \cup {onBeforeSendHeaders(State,
                  [requestId |-> r.requestId, url |-> r.url, requestHeaders |-> h]) :
                 h \in HeaderLists}

\* C30: a pageUrl other than null, empty or "/" is changed by no later
\* payload attachment (with the body it brings), page-context backfill,
\* header update or status update.
C30_SettledPageUrlIsKept ==
    \A i \in 1..Len(requests) :
        requests[i].pageUrl \notin {"", "/"} =>
            \A s \in LaterEvents(i) : s.requests[i].pageUrl = requests[i].pageUrl

\* with the hooks open a record of the interact call holds a page URL, and
\* a page-context message of its requestId names another page
C30_Witness ==
    /\ HooksOpen
    /\ \E i \in 1..Len(requests) :
          /\ requests[i].pageUrl \notin {"", "/", PageB}
          /\ getRequestIdFromUrl(requests[i].url) = "r1"
          /\ \E s \in LaterEvents(i) : s.requests[i] # requests[i]

\* the records a capturedWebsdk message from tab t stamped hookTs may go to:
\* those of the tab with a configId parameter, less than 20 s from hookTs
WebsdkCandidates(t, hookTs) ==
    {i \in 1..Len(requests) :
        /\ requests[i].tabId = t
        /\ \E k \in 1..Len(requests[i].query) : requests[i].query[k].key = "configId"
        /\ hookTs - requests[i].timeStamp < HOOK_WINDOW_MS
        /\ requests[i].timeStamp - hookTs < HOOK_WINDOW_MS}

\* the hook timestamps tried: now, just inside and just outside the window
\* of a record stamped now
WebsdkHookTimes == {now, now + HOOK_WINDOW_MS - 1, now + HOOK_WINDOW_MS + 1}

\* what one capturedWebsdk message does, against what it may do
WebsdkAttachedAsStated(t, hookTs, p, after) ==
    LET changed == {i \in 1..Len(requests) : after.requests[i] # requests[i]}
        candidates == WebsdkCandidates(t, hookTs)
        latest == {i \in candidates :
                     \A j \in candidates :
                         requests[i].timeStamp >= requests[j].timeStamp}
    IN  /\ Len(after.requests) = Len(requests)
        /\ Cardinality(changed) <= 1
        /\ \A i \in changed :
              /\ i \in latest
              /\ shouldReplaceBody(requests[i].body, p)
              /\ after.requests[i].body = p
        /\ (HooksOpen /\ latest # {}
              /\ \A i \in latest : shouldReplaceBody(requests[i].body, p))
             => changed # {}
        /\ after.payloadCache = payloadCache
        /\ after.payloadCacheByUrlTab = payloadCacheByUrlTab
        /\ after.hookQueueByTabUrl = hookQueueByTabUrl
        /\ after.hookQueueByUrl = hookQueueByUrl

\* C31: a capturedWebsdk payload goes to at most one record, the one with
\* the latest timestamp among the records of the tab that carry a configId
\* parameter and lie within 20 s of the hook timestamp, and only when
\* shouldReplaceBody allows it; otherwise nothing changes.
C31_WebsdkPayloadToLatestCandidate ==
    \A t \in Tabs, hookTs \in WebsdkHookTimes :
        \A p \in WebsdkPayloads(counters.messages + 1, now) :
            WebsdkAttachedAsStated(t, hookTs, p,
                capturedWebsdk(State, [HookMessage("", p) EXCEPT !.hookTs = hookTs], t))

\* two records of one tab are candidates, and the message changes a record
C31_Witness ==
    /\ HooksOpen
    /\ \E t \in Tabs :
          /\ Cardinality(WebsdkCandidates(t, now)) = 2
          /\ \E p \in WebsdkPayloads(counters.messages + 1, now) :
                capturedWebsdk(State, HookMessage("", p), t).requests # requests

\* C32: decoded body text longer than 200,000 characters is never parsed as
\* JSON: the decoder returns the text cut to the limit with parsed null.
C32_OversizedTextIsNotParsed ==
    (/\ rb.phase = "decoded"
     /\ rb.requestBody.formData = "absent"
     /\ rb.requestBody.len > MAX_BODY_CHARS)
        => /\ rb.body # Null
           /\ rb.body.parsed = "none"
           /\ rb.body.rawLen = MAX_BODY_CHARS

\* C33: a.b[1].c against {a: {b: [{c: 1}, {c: 2}]}} resolves to 2, a.b[5].c
\* to not-found, and an index applied to a value that is no array to
\* not-found.
C33_PathResolution ==
    rb.phase = "resolved" =>
        /\ (rb.obj = DocList /\ rb.path = PathIn("1")) => rb.value = Num(2)
        /\ (rb.obj = DocList /\ rb.path = PathIn("5")) => rb.value = Undefined
        /\ (rb.obj \in {DocObject, DocKeyed, DocNumber}
              /\ rb.path \in {PathIn("0"), PathTo("0"), PathAt("0")})
             => rb.value = Undefined

\* whether the one value v satisfies the condition with operator op
Satisfies(v, op) == evaluateCondition([rb.condition EXCEPT !.operator = op], <<v>>)

\* C34: over a list of values every operator but not_in and not_exists passes
\* exactly if some value of the list satisfies it, not_in exactly if no value
\* is in the expected set, not_exists exactly if no value satisfies exists; a
\* malformed regex and an unknown operator give false.
C34_SomeValueSatisfies ==
    rb.phase = "evaluated" =>
        LET op == rb.condition.operator
            Some(o) == \E i \in 1..Len(rb.values) : Satisfies(rb.values[i], o)
        IN  /\ op \notin {"not_in", "not_exists"} => (rb.passed <=> Some(op))
            /\ op = "not_in" => (rb.passed <=> ~Some("in"))
            /\ op = "not_exists" => (rb.passed <=> ~Some("exists"))
            /\ (/\ op = "regex"
                /\ rb.condition.expected.t = "str"
                /\ rb.condition.expected.v = "(") => ~rb.passed
            /\ op = "matches" => ~rb.passed

C34_Witness ==
    /\ rb.phase = "evaluated"
    /\ rb.condition.operator = "in"
    /\ rb.values = <<"c1", "1">>
    /\ rb.condition.expected.t = "list"
    /\ rb.condition.expected.v = <<"1", "2">>
    /\ rb.passed

\* C35: at any time at most one session has paused = false.
C35_AtMostOneUnpaused ==
    Cardinality({i \in 1..Len(sessions) : ~sessions[i].paused}) <= 1

\* C36: a record is stored under the session whose existence and tab lock
\* onBeforeRequest checked when it admitted the request, the one named by
\* settings.selectedSessionId || currentSessionId at that moment.
C36_RecordUnderAdmittingSession ==
    [][Len(requests') = Len(requests) + 1
          => requests'[Len(requests')].sessionId = ActiveSessionId(State)]_vars

\* the records of s that carry the payload p and were observed in another
\* tab than t
InOtherTab(s, p, t) ==
    {i \in 1..Len(s.requests) :
        /\ s.requests[i].tabId # t
        /\ s.requests[i].body # Null
        /\ s.requests[i].body.mid = p.mid}

\* C37: a payload the content script of one tab reports is never the body of
\* a record observed in another tab, neither of a record that exists when it
\* is reported nor of the record of a request that follows it.
C37_PayloadStaysInItsTab ==
    \A t \in Tabs, u \in Urls :
       \A p \in HookPayloads(counters.messages + 1, now) :
          LET hooked == capturedPayload(State, HookMessage(u, p), t)
          IN  /\ InOtherTab(hooked, p, t) = {}
              /\ \A t2 \in Tabs \ {t} :
                    InOtherTab(onBeforeRequest(hooked,
                                   PlainRequest(counters.requests + 1, t2, u)),
                               p, t) = {}

\* the stored results of record i that carry a count
CountedResults(i) ==
    IF requests[i].uat = Null THEN {}
    ELSE {k \in 1..Len(requests[i].uat.results) :
             /\ k <= Len(AssertionsOf(i))
             /\ requests[i].uat.results[k].scope = "page"
             /\ requests[i].uat.results[k].count # Null}

\* C38: between two events the count a record stores for a page-scope
\* assertion is the number of records of its cohort that satisfy the
\* assertion now, so the records of one cohort store the same count.  (The
\* header and completion events of a request evaluate nothing, so no state
\* has an evaluation outstanding.)
C38_StoredCountsAreCurrent ==
    \A i \in 1..Len(requests) : \A k \in CountedResults(i) :
        requests[i].uat.results[k].count.actual
            = Cardinality(Cohort(AssertionsOf(i)[k], i))

\* C39: a load that is delivered after the requests, sessions or settings in
\* memory were changed since its read leaves them as they are, and leaves the
\* index leading to the records in memory.
C39_LoadKeepsLaterChanges ==
    [][(/\ rb'.finished = rb.finished + 1
        /\ Memory(State) # Head(rb.pending).at)
          => /\ requests' = requests
             /\ sessions' = sessions
             /\ settings' = settings
             /\ requestIndex' = IndexOf(requests')]_vars

\* C40: when a tab is removed nothing that is kept per tab remains for it:
\* no nav state, no tab URL, no payload cached for the tab, no queued hook
\* payload of the tab.
C40_NothingLeftOfRemovedTab ==
    \A t \in Tabs :
        LET after == onTabRemoved(State, t)
        IN  /\ after.navState[t] = Null
            /\ after.tabUrlCache[t] = ""
            /\ after.payloadCacheByUrlTab[t] = <<>>
            /\ \A u \in Urls : after.hookQueueByTabUrl[<<t, u>>] = <<>>

=============================================================================
